---- MODULE Spec2Model ----
(***************************************************************************)
(* Model of GDQuest/product-packager, programs/format_tutorials.py: the    *)
(* markdown formatter (segmentation, prose rules, code-block rules) and    *)
(* its command-line driver.                                                *)
(*                                                                         *)
(* A text is a sequence of one-character strings.  A regular expression is *)
(* a tree of records, matched by a backtracking matcher that tries the     *)
(* alternatives in the order Python's re module tries them.                *)
(***************************************************************************)
EXTENDS Integers, Sequences, FiniteSets, TLC

(***************************************************************************)
(* Character classes of Python's re module (ASCII part)                    *)
(***************************************************************************)
Lower ==
    {"a","b","c","d","e","f","g","h","i","j","k","l","m",
     "n","o","p","q","r","s","t","u","v","w","x","y","z"}

Upper ==
    {"A","B","C","D","E","F","G","H","I","J","K","L","M",
     "N","O","P","Q","R","S","T","U","V","W","X","Y","Z"}

Digit ==
    {"0","1","2","3","4","5","6","7","8","9"}

Alpha == Lower \cup Upper

AlNum == Alpha \cup Digit

\* \w
Word == AlNum \cup {"_"}

\* str.strip / str.lstrip / str.rstrip without argument, \s, and
\* textwrap._whitespace
Whitespace == {" ", "\t", "\n", "\r", "\f"}

(***************************************************************************)
(* Regular expression syntax trees                                         *)
(***************************************************************************)
\* [...]: one character of the set
In(cs) == [t |-> "set", cs |-> cs, neg |-> FALSE]

\* [^...]: one character that is not in the set (a newline included)
NotIn(cs) == [t |-> "set", cs |-> cs, neg |-> TRUE]

\* a literal character
Ch(c) == In({c})

\* . without re.DOTALL: any character except a newline
Dot == NotIn({"\n"})

\* . under re.DOTALL: any character
DotAll == NotIn({})

\* r1 r2 ... rn
Cat(rs) == [t |-> "cat", rs |-> rs]

\* r1 | r2 | ... | rn, tried from left to right
Alt(rs) == [t |-> "alt", rs |-> rs]

\* r{min,max}; max = -1 stands for no upper limit; lazy is the ? suffix
Rep(r, min, max, lazy) == [t |-> "rep", r |-> r, min |-> min, max |-> max, lazy |-> lazy]

Star(r) == Rep(r, 0, -1, FALSE)

Plus(r) == Rep(r, 1, -1, FALSE)

Opt(r) == Rep(r, 0, 1, FALSE)

StarLazy(r) == Rep(r, 0, -1, TRUE)

PlusLazy(r) == Rep(r, 1, -1, TRUE)

\* capturing group number n
Grp(n, r) == [t |-> "grp", n |-> n, r |-> r]

\* ^ ; ml is re.MULTILINE
Bol(ml) == [t |-> "bol", ml |-> ml]

\* $ ; ml is re.MULTILINE
Eol(ml) == [t |-> "eol", ml |-> ml]

\* \b
WordBoundary == [t |-> "wb"]

\* (?<!r) where r has the fixed width w
NotBehind(r, w) == [t |-> "nlb", r |-> r, w |-> w]

\* (?!r)
NotAhead(r) == [t |-> "nla", r |-> r]

\* (?<=r) where r has the fixed width w
Behind(r, w) == [t |-> "plb", r |-> r, w |-> w]

\* (?=r)
Ahead(r) == [t |-> "pla", r |-> r]

\* \Z
EndOfString == [t |-> "eos"]

\* a literal string
Lit(str) == Cat([k \in 1..Len(str) |-> Ch(str[k])])

(***************************************************************************)
(* The matcher                                                             *)
(***************************************************************************)
\* the largest group number used by a pattern of the program
MaxGroup == 2

NoGroups == [n \in 1..MaxGroup |-> <<0, 0>>]

NoMatch == [ok |-> FALSE, b |-> 0, e |-> 0, g |-> NoGroups]

IsWordAt(s, i) == i >= 1 /\ i <= Len(s) /\ s[i] \in Word

Min(S) == CHOOSE x \in S : \A y \in S : x <= y

Max(S) == CHOOSE x \in S : \A y \in S : y <= x

\* The number of successive characters of s from position i on that the
\* character class r accepts, at most max of them when max >= 0
RunLength(r, s, i, max) ==
    LET avail == Len(s) - i + 1
        limit == IF max < 0 \/ max > avail THEN avail ELSE max
        refused == {n \in 0..(limit - 1) : (s[i + n] \in r.cs) = r.neg}
    IN  IF refused = {} THEN limit ELSE Min(refused)

\* Matches the sequence k of expressions against s from position i
\* (1-based, the position of the next character to read); the first
\* successful way in backtracking order decides the end e and the groups g.
RECURSIVE MatchSeq(_, _, _, _)
RECURSIVE TryEnds(_, _, _, _, _, _, _)

\* m is the outcome of the ends tried so far: the first end that lets the
\* rest match decides, and the ends from n to last are tried when none did
FirstEnd(m, rest, s, i, g, n, last, step) ==
    IF m.ok THEN m ELSE TryEnds(rest, s, i, g, n, last, step)

\* half of the ends from n to last, the other half when none of them lets the
\* rest match
HalfOfEnds(rest, s, i, g, n, last, step, half) ==
    FirstEnd(TryEnds(rest, s, i, g, n, n + step * half, step),
             rest, s, i, g, n + step * half + step, last, step)

\* A repeated character class followed by rest: the ends that the class can
\* reach are tried in order from n to last
TryEnds(rest, s, i, g, n, last, step) ==
    IF n = last THEN MatchSeq(rest, s, i + n, g)
    ELSE HalfOfEnds(rest, s, i, g, n, last, step, ((last - n) * step) \div 2)

\* the ends go from the longest one down to min, from min up when lazy
RepeatSet(rest, s, i, g, min, run, lazy) ==
    IF run < min THEN NoMatch
    ELSE IF lazy THEN TryEnds(rest, s, i, g, min, run, 1)
    ELSE TryEnds(rest, s, i, g, run, min, -1)

MatchSeq(k, s, i, g) ==
    IF Len(k) = 0 THEN [ok |-> TRUE, b |-> 0, e |-> i, g |-> g]
    ELSE
    LET r == Head(k)
        rest == Tail(k)
    IN
    CASE r.t = "set" ->
            IF i <= Len(s) /\ ((s[i] \in r.cs) # r.neg)
            THEN MatchSeq(rest, s, i + 1, g)
            ELSE NoMatch
      [] r.t = "cat" -> MatchSeq(r.rs \o rest, s, i, g)
      [] r.t = "alt" ->
            IF Len(r.rs) = 0 THEN NoMatch
            ELSE LET first == MatchSeq(<<Head(r.rs)>> \o rest, s, i, g)
                 IN  IF first.ok THEN first
                     ELSE MatchSeq(<<Alt(Tail(r.rs))>> \o rest, s, i, g)
      [] r.t = "rep" /\ r.r.t = "set" ->
            \* a repeated character class: the ends that it can reach are tried
            \* from the longest one (from the shortest one when lazy)
            RepeatSet(rest, s, i, g, r.min, RunLength(r.r, s, i, r.max), r.lazy)
      [] r.t = "rep" ->
            LET less == Rep(r.r, IF r.min > 0 THEN r.min - 1 ELSE 0,
                            IF r.max > 0 THEN r.max - 1 ELSE r.max, r.lazy)
                more == IF r.max = 0 THEN NoMatch
                        ELSE MatchSeq(<<r.r, less>> \o rest, s, i, g)
                stop == IF r.min > 0 THEN NoMatch
                        ELSE MatchSeq(rest, s, i, g)
            IN  IF r.lazy
                THEN (IF stop.ok THEN stop ELSE more)
                ELSE (IF more.ok THEN more ELSE stop)
      [] r.t = "grp" ->
            MatchSeq(<<r.r, [t |-> "end", n |-> r.n, from |-> i]>> \o rest, s, i, g)
      [] r.t = "end" ->
            MatchSeq(rest, s, i, [g EXCEPT ![r.n] = <<r.from, i>>])
      [] r.t = "bol" ->
            IF i = 1 \/ (r.ml /\ s[i - 1] = "\n")
            THEN MatchSeq(rest, s, i, g)
            ELSE NoMatch
      [] r.t = "eol" ->
            IF \/ i = Len(s) + 1
               \/ (i = Len(s) /\ s[i] = "\n")
               \/ (r.ml /\ i <= Len(s) /\ s[i] = "\n")
            THEN MatchSeq(rest, s, i, g)
            ELSE NoMatch
      [] r.t = "wb" ->
            IF IsWordAt(s, i - 1) # IsWordAt(s, i)
            THEN MatchSeq(rest, s, i, g)
            ELSE NoMatch
      [] r.t = "nlb" ->
            IF i - r.w >= 1 /\ MatchSeq(<<r.r>>, s, i - r.w, g).ok
            THEN NoMatch
            ELSE MatchSeq(rest, s, i, g)
      [] r.t = "nla" ->
            IF MatchSeq(<<r.r>>, s, i, g).ok
            THEN NoMatch
            ELSE MatchSeq(rest, s, i, g)
      [] r.t = "plb" ->
            IF i - r.w >= 1 /\ MatchSeq(<<r.r>>, s, i - r.w, g).ok
            THEN MatchSeq(rest, s, i, g)
            ELSE NoMatch
      [] r.t = "pla" ->
            IF MatchSeq(<<r.r>>, s, i, g).ok
            THEN MatchSeq(rest, s, i, g)
            ELSE NoMatch
      [] r.t = "eos" ->
            IF i = Len(s) + 1
            THEN MatchSeq(rest, s, i, g)
            ELSE NoMatch

\* pattern.match(s, i): a match that starts exactly at position i
MatchAt(re, s, i) == [MatchSeq(<<re>>, s, i, NoGroups) EXCEPT !.b = i]

\* The successive non-overlapping matches, left to right, from position from
\* on; attempts[b] is the outcome of the pattern at position b. After an empty
\* match the scan moves on by one character.
RECURSIVE MatchesFrom(_, _)
MatchesFrom(attempts, from) ==
    LET later == {b \in DOMAIN attempts : b >= from /\ attempts[b].ok}
        m == attempts[Min(later)]
    IN  IF later = {} THEN <<>>
        ELSE <<m>> \o MatchesFrom(attempts, IF m.e > m.b THEN m.e ELSE m.e + 1)

\* pattern.finditer(s)
FindAll(re, s, from) ==
    MatchesFrom([b \in from..(Len(s) + 1) |-> MatchAt(re, s, b)], from)

Slice(s, b, e) == SubSeq(s, b, e - 1)

\* "".join(list)
RECURSIVE Join(_)
Join(list) ==
    IF Len(list) = 0 THEN <<>> ELSE Head(list) \o Join(Tail(list))

\* match.group(0)
Group0(s, m) == Slice(s, m.b, m.e)

\* pattern.sub(repl, s): ms are the matches of the pattern in s and repls[k]
\* is what the function repl returns for the k-th match
Sub(ms, repls, s) ==
    LET n == Len(ms)
        before(k) == Slice(s, IF k = 1 THEN 1 ELSE ms[k - 1].e, ms[k].b)
    IN  IF n = 0 THEN s
        ELSE Join([k \in 1..n |-> before(k) \o repls[k]]) \o Slice(s, ms[n].e, Len(s) + 1)

\* pattern.split(s) for a pattern with ng capturing groups that all take part
\* in every match: the text between the matches and, for every match, the text
\* of each group; the text of the match outside its groups is not returned.
SplitMatches(ms, ng, s) ==
    LET n == Len(ms)
        before(k) == Slice(s, IF k = 1 THEN 1 ELSE ms[k - 1].e, ms[k].b)
        groups(k) == [j \in 1..ng |-> Slice(s, ms[k].g[j][1], ms[k].g[j][2])]
    IN  IF n = 0 THEN <<s>>
        ELSE Join([k \in 1..n |-> <<before(k)>> \o groups(k)])
             \o <<Slice(s, ms[n].e, Len(s) + 1)>>

Split(re, ng, s) == SplitMatches(FindAll(re, s, 1), ng, s)

(***************************************************************************)
(* format_tutorials.py: constants and patterns                             *)
(***************************************************************************)
TAB_WIDTH == 4

ERROR_PYTHON_VERSION_TOO_OLD == 1

ERROR_INCORRECT_FILE_PATHS == 2

WORDS_TO_KEEP_UNFORMATTED ==
    { <<"g", "d", "q", "u", "e", "s", "t">>,
      <<"g", "d", "s", "c", "r", "i", "p", "t">>,
      <<"g", "o", "d", "o", "t">>,
      <<"s", "t", "a", "c", "k", " ", "o", "v", "e", "r", "f", "l", "o", "w">>,
      <<"g", "o", "o", "g", "l", "e">>,
      <<"y", "o", "u", "t", "u", "b", "e">>,
      <<"t", "w", "i", "t", "t", "e", "r">>,
      <<"f", "a", "c", "e", "b", "o", "o", "k">>,
      <<"d", "i", "s", "c", "o", "r", "d">>,
      <<"i", "n", "s", "t", "a", "g", "r", "a", "m">>,
      <<"d", "u", "c", "k", "d", "u", "c", "k", "g", "o">> }

\* lib/gdscript_classes.py is not part of the sources at hand: the list of
\* the names of Godot's built-in classes, of which a few are kept.
BUILT_IN_CLASSES ==
    << <<"N", "o", "d", "e", "2", "D">>,
       <<"N", "o", "d", "e">>,
       <<"T", "i", "m", "e", "r">> >>

\* The grave accent (the inline-code and code-fence mark of markdown) cannot
\* be written in a string of this language: BackTick stands for that character.
BackTick == "GRAVE"

Fence == <<BackTick, BackTick, BackTick>>

RE_SPLIT_CODE_BLOCK ==
    Grp(1, Cat(<<Lit(Fence), Star(In(Lower)), StarLazy(DotAll), Lit(Fence)>>))

RE_SPLIT_HTML ==
    Grp(1, Cat(<<Ch("<"), PlusLazy(DotAll), Ch(">"), StarLazy(DotAll),
                 Ch("<"), Ch("/"), PlusLazy(DotAll), Ch(">")>>))

RE_SPLIT_TEMPLATE ==
    Grp(1, Cat(<<Lit(<<"{", "%">>), PlusLazy(Dot), Lit(<<"%", "}">>)>>))

RE_SPLIT_FRONT_MATTER ==
    Grp(1, Cat(<<Lit(<<"-", "-", "-">>), PlusLazy(DotAll), Lit(<<"-", "-", "-", "\n">>)>>))

RE_BUILT_IN_CLASSES ==
    Cat(<<WordBoundary, NotBehind(Ch(BackTick), 1),
          Alt([k \in 1..Len(BUILT_IN_CLASSES) |-> Lit(BUILT_IN_CLASSES[k])]),
          WordBoundary>>)

ResOrUser == Alt(<<Lit(<<"r", "e", "s">>), Lit(<<"u", "s", "e", "r">>)>>)

SchemeSep == Lit(<<":", "/", "/">>)

PATTERN_DIR_PATH ==
    Cat(<<WordBoundary, Opt(Cat(<<ResOrUser, SchemeSep>>)), Opt(Ch("/")),
          Plus(Cat(<<Plus(In(Word)), Ch("/")>>)),
          Opt(Cat(<<Star(In(Word)), Ch("."), Plus(In(Word))>>)),
          WordBoundary>>)

PATTERN_FILE_AT_ROOT ==
    Cat(<<ResOrUser, SchemeSep, Plus(In(Word)), Ch("."), Plus(In(Word))>>)

SUPPORTED_EXTENSIONS ==
    << Lit(<<"p", "n", "g">>),
       Cat(<<Lit(<<"j", "p">>), Opt(Ch("e")), Ch("g")>>),
       Lit(<<"m", "p", "4">>),
       Lit(<<"m", "k", "v">>),
       Cat(<<Opt(Ch("t")), Lit(<<"r", "e", "s">>)>>),
       Cat(<<Opt(Ch("t")), Lit(<<"s", "c", "n">>)>>),
       Lit(<<"g", "d">>),
       Lit(<<"p", "y">>),
       Lit(<<"s", "h", "a", "d", "e", "r">>) >>

PATTERN_FILENAME_ONLY ==
    Cat(<<Plus(In(Word)), Ch("."), Alt(SUPPORTED_EXTENSIONS)>>)

RE_FILE_PATH ==
    Alt(<<PATTERN_DIR_PATH, PATTERN_FILE_AT_ROOT, PATTERN_FILENAME_ONLY>>)

SINGLE_FUNCTION_CALL ==
    Cat(<<WordBoundary, Opt(Ch("_")), Plus(In(Word)),
          Star(Cat(<<Ch("."), Plus(In(Word))>>)),
          Ch("("), Star(In(AlNum \cup {"\"", "'", "_", ",", " "})), Ch(")")>>)

SINGLE_VARIABLE ==
    Alt(<<Cat(<<WordBoundary, Ch("_"), Plus(In(Word))>>),
          Cat(<<WordBoundary, Plus(In(AlNum)), Ch("_"), Plus(In(Word))>>)>>)

VARIABLE_AND_PROPERTY ==
    Cat(<<WordBoundary, Opt(Ch("_")), Plus(In(Word)), Ch("."), Plus(In(Word))>>)

RE_VARIABLE_OR_FUNCTION ==
    Alt(<<SINGLE_FUNCTION_CALL, SINGLE_VARIABLE, VARIABLE_AND_PROPERTY>>)

RE_NUMERIC_VALUES_AND_RANGES ==
    Alt(<<Cat(<<Plus(In(Digit)), Ch("x"), Plus(In(Digit))>>),
          Cat(<<Ch("["), Plus(In(Digit \cup {".", ",", " "})), Ch("]")>>),
          Cat(<<Opt(Ch("-")), Plus(In(Digit)), Ch("."), Plus(In(Digit))>>),
          Cat(<<NotBehind(In(Alpha \cup {"\n"}), 1),
                Opt(Ch("-")), Plus(In(Digit)),
                NotAhead(In(Alpha)), NotAhead(Lit(<<".", " ">>))>>)>>)

Ellipsis == Lit(<<".", ".", ".">>)

RE_TO_ITALICIZE_SEQUENCE ==
    Cat(<<NotBehind(Cat(<<In({"-", "."}), Ch(" ")>>), 2), NotBehind(Bol(TRUE), 0),
          Plus(In(Upper \cup Digit)), Star(In(AlNum)),
          Plus(Cat(<<Ch(" "), Opt(Lit(<<"-", ">", " ">>)),
                     In(Upper), Plus(In(AlNum)), Opt(Ellipsis)>>))>>)

RE_TO_ITALICIZE_ONE_WORD ==
    Alt(<<Cat(<<Bol(TRUE), In(Upper), Plus(In(Word)), In(Upper), Plus(In(Word))>>),
          Cat(<<NotBehind(Cat(<<In({".", "-", ":", ";", "?", "!"}), Ch(" ")>>), 2),
                NotBehind(Bol(TRUE), 0),
                In(Upper), Plus(In(AlNum)), Opt(Ellipsis)>>)>>)

RE_TO_IGNORE ==
    Grp(1, Alt(<<Cat(<<Opt(Ch("!")), Ch("["), Star(Dot), Ch("]"),
                       Ch("("), Plus(Dot), Ch(")")>>),
                 Cat(<<Bol(TRUE), Plus(Ch("#")), Ch(" "), Plus(Dot), Eol(TRUE)>>)>>))

Modifier ==
    Alt(<<Lit(<<"C", "t", "r", "l">>), Lit(<<"A", "l", "t">>),
          Lit(<<"S", "h", "i", "f", "t">>), Lit(<<"C", "T", "R", "L">>),
          Lit(<<"A", "L", "T">>), Lit(<<"S", "H", "I", "F", "T">>)>>)

RE_KEYBOARD_SHORTCUTS ==
    Cat(<<NotBehind(Cat(<<In(Digit), Ch("."), Ch(" ")>>), 3), Plus(Ch(" ")),
          Cat(<<Modifier, Opt(Ch(" ")), Ch("+"), Opt(Ch(" "))>>),
          Alt(<<Cat(<<Ch("F"), Rep(In(Digit), 1, 2, FALSE)>>), In(Upper \cup Digit)>>)>>)

RE_KEYBOARD_SHORTCUTS_ONE_ELEMENT ==
    Alt(<<Modifier, Plus(In(Upper \cup Digit))>>)

HexDigit == Digit \cup {"a", "b", "c", "d", "e", "f", "A", "B", "C", "D", "E", "F"}

RE_HEX_VALUES == Cat(<<Ch("#"), Rep(In(HexDigit), 3, 8, FALSE)>>)

RE_INSIDE_DOUBLE_QUOTES ==
    Cat(<<NotIn(Word), Grp(1, Cat(<<Ch("\""), Star(NotIn({"\""})), Ch("\"")>>)), NotIn(Word)>>)

RE_INSIDE_SINGLE_QUOTES ==
    Cat(<<NotIn(Word), Grp(1, Cat(<<Ch("'"), Star(NotIn({"'"})), Ch("'")>>)), NotIn(Word)>>)

RE_MARKDOWN_BLOCKQUOTE ==
    Cat(<<Bol(TRUE), Grp(1, Lit(<<">", " ">>)), Grp(2, PlusLazy(Dot)), Eol(TRUE)>>)

\* the pattern of format_line.split_formatted_words
RE_FORMATTED_WORDS ==
    Grp(1, Cat(<<In({BackTick, "*"}), PlusLazy(Dot), In({BackTick, "*"})>>))

\* the pattern of format_code_block's re.match, under re.DOTALL
RE_CODE_BLOCK ==
    Cat(<<Lit(Fence), Opt(Grp(1, Plus(In(Lower)))), Ch("\n"),
          Grp(2, StarLazy(DotAll)), Lit(Fence)>>)

\* the pattern of format_code_block's re.sub, under re.MULTILINE
RE_COMMENT == Cat(<<Star(Ch("\t")), Ch("#"), Plus(Dot)>>)

(***************************************************************************)
(* Helpers of the Python string type                                       *)
(***************************************************************************)
LowerLetters ==
    <<"a","b","c","d","e","f","g","h","i","j","k","l","m",
      "n","o","p","q","r","s","t","u","v","w","x","y","z">>

UpperLetters ==
    <<"A","B","C","D","E","F","G","H","I","J","K","L","M",
      "N","O","P","Q","R","S","T","U","V","W","X","Y","Z">>

LowerChar(c) ==
    IF c \in Upper THEN LowerLetters[CHOOSE k \in 1..26 : UpperLetters[k] = c] ELSE c

UpperChar(c) ==
    IF c \in Lower THEN UpperLetters[CHOOSE k \in 1..26 : LowerLetters[k] = c] ELSE c

\* str.lower
StrLower(s) == [k \in 1..Len(s) |-> LowerChar(s[k])]

\* str.upper
StrUpper(s) == [k \in 1..Len(s) |-> UpperChar(s[k])]

\* str.startswith
StartsWith(s, p) == Len(s) >= Len(p) /\ SubSeq(s, 1, Len(p)) = p

\* str.endswith
EndsWith(s, p) == Len(s) >= Len(p) /\ SubSeq(s, Len(s) - Len(p) + 1, Len(s)) = p

\* str.lstrip(chars)
RECURSIVE LStrip(_, _)
LStrip(s, chars) ==
    IF Len(s) > 0 /\ Head(s) \in chars THEN LStrip(Tail(s), chars) ELSE s

\* str.rstrip(chars)
RECURSIVE RStrip(_, _)
RStrip(s, chars) ==
    IF Len(s) > 0 /\ s[Len(s)] \in chars THEN RStrip(SubSeq(s, 1, Len(s) - 1), chars) ELSE s

\* str.strip(chars)
Strip(s, chars) == LStrip(RStrip(s, chars), chars)

\* str.split(sep) for a separator of one character
RECURSIVE SplitOn(_, _)
SplitOn(s, sep) ==
    IF \A k \in 1..Len(s) : s[k] # sep THEN <<s>>
    ELSE LET k == CHOOSE j \in 1..Len(s) : s[j] = sep /\ \A h \in 1..(j - 1) : s[h] # sep
         IN  <<SubSeq(s, 1, k - 1)>> \o SplitOn(SubSeq(s, k + 1, Len(s)), sep)

\* sep.join(list)
RECURSIVE JoinWith(_, _)
JoinWith(list, sep) ==
    IF Len(list) = 0 THEN <<>>
    ELSE IF Len(list) = 1 THEN list[1]
    ELSE list[1] \o sep \o JoinWith(Tail(list), sep)

\* [x for x in list if x != ""]
RECURSIVE NonEmpty(_)
NonEmpty(list) ==
    IF Len(list) = 0 THEN <<>>
    ELSE IF Len(Head(list)) = 0 THEN NonEmpty(Tail(list))
    ELSE <<Head(list)>> \o NonEmpty(Tail(list))

(***************************************************************************)
(* The prose rules                                                         *)
(***************************************************************************)
\* "`{}`".format(match.group(0))
InlineCode(text) == <<BackTick>> \o text \o <<BackTick>>

\* "*{}*".format(match.group(0))
Italics(text) == <<"*">> \o text \o <<"*">>

KbdOpen == <<"<", "k", "b", "d", ">">>

KbdClose == <<"<", "/", "k", "b", "d", ">">>

\* "<kbd>{}</kbd>".format(m.group(0))
Kbd(text) == KbdOpen \o text \o KbdClose

\* RE_KEYBOARD_SHORTCUTS_ONE_ELEMENT.sub of add_one_keyboard_tag
tag_matches(ms, expression) ==
    Sub(ms, [k \in 1..Len(ms) |-> Kbd(Group0(expression, ms[k]))], expression)

tag_elements(expression) ==
    tag_matches(FindAll(RE_KEYBOARD_SHORTCUTS_ONE_ELEMENT, expression, 1), expression)

\* italicize_other_words.replace_match
replace_match(expression) ==
    IF \/ StrLower(expression) \in WORDS_TO_KEEP_UNFORMATTED
       \/ StrUpper(expression) = expression
    THEN expression
    ELSE Italics(expression)

\* add_one_keyboard_tag with the match stripped of its spaces before it is tagged
add_one_keyboard_tag_stripped(expression) ==
    IF Strip(expression, Whitespace) = <<"I">>
    THEN expression
    ELSE tag_elements(Strip(expression, Whitespace))

\* add_keyboard_tags.add_one_keyboard_tag
add_one_keyboard_tag(expression) ==
    IF Strip(expression, Whitespace) = <<"I">>
    THEN expression
    ELSE tag_elements(expression)

\* The replacement functions of the formatters: what a match is replaced with
Replacement(repl, expression) ==
    CASE repl = "inline_code" -> InlineCode(expression)
      [] repl = "italics" -> Italics(expression)
      [] repl = "replace_match" -> replace_match(expression)
      [] repl = "add_one_keyboard_tag" -> add_one_keyboard_tag(expression)

\* A formatter is pattern.sub(replacement, text): its pattern and the name of
\* its replacement function
inline_code_built_in_classes == [re |-> RE_BUILT_IN_CLASSES, repl |-> "inline_code"]

inline_code_paths == [re |-> RE_FILE_PATH, repl |-> "inline_code"]

inline_code_variables_and_functions == [re |-> RE_VARIABLE_OR_FUNCTION, repl |-> "inline_code"]

inline_code_hex_values == [re |-> RE_HEX_VALUES, repl |-> "inline_code"]

inline_code_numeric_values == [re |-> RE_NUMERIC_VALUES_AND_RANGES, repl |-> "inline_code"]

italicize_word_sequences == [re |-> RE_TO_ITALICIZE_SEQUENCE, repl |-> "italics"]

italicize_other_words == [re |-> RE_TO_ITALICIZE_ONE_WORD, repl |-> "replace_match"]

add_keyboard_tags == [re |-> RE_KEYBOARD_SHORTCUTS, repl |-> "add_one_keyboard_tag"]

\* the list with the keyboard shortcuts after the numeric literals
FORMATTERS_as_stated ==
    << inline_code_paths,
       inline_code_variables_and_functions,
       italicize_word_sequences,
       inline_code_built_in_classes,
       inline_code_hex_values,
       italicize_other_words,
       inline_code_numeric_values,
       add_keyboard_tags >>

FORMATTERS ==
    << inline_code_paths,
       inline_code_variables_and_functions,
       italicize_word_sequences,
       add_keyboard_tags,
       inline_code_built_in_classes,
       inline_code_hex_values,
       italicize_other_words,
       inline_code_numeric_values >>

\* formatter(text)
replace_matches(formatter, ms, text) ==
    Sub(ms, [k \in 1..Len(ms) |-> Replacement(formatter.repl, Group0(text, ms[k]))], text)

Apply(formatter, text) == replace_matches(formatter, FindAll(formatter.re, text, 1), text)

split_formatted_words(text) == NonEmpty(Split(RE_FORMATTED_WORDS, 1, text))

\* the loop of format_line over FORMATTERS: it stops at the first formatter
\* that changes the line; formatted[k] is what the k-th formatter returns
first_formatted(line, formatted) ==
    LET changing == {k \in 1..Len(FORMATTERS) : formatted[k] # line}
    IN  IF changing = {} THEN line ELSE formatted[Min(changing)]

\* the line that format_line goes on with: the line itself when it has
\* formatted words in it or starts with a mark, else the line after the first
\* formatter that changes it
line_to_split(line, split_line) ==
    IF Len(split_line) > 1 \/ MatchAt(In({BackTick, "*"}), line, 1).ok THEN line
    ELSE first_formatted(line, [k \in 1..Len(FORMATTERS) |-> Apply(FORMATTERS[k], line)])

RECURSIVE format_line(_)

\* the end of format_line: a line that formatted words split is formatted
\* part by part
format_parts(formatted_line, parts) ==
    IF Len(parts) > 1
    THEN Join([j \in 1..Len(parts) |-> format_line(parts[j])])
    ELSE formatted_line

format_formatted(line, formatted_line) ==
    IF formatted_line = line /\ Len(split_formatted_words(line)) <= 1 THEN line
    ELSE format_parts(formatted_line, split_formatted_words(formatted_line))

format_line(line) ==
    format_formatted(line, line_to_split(line, split_formatted_words(line)))

format_content(content) ==
    LET lines == SplitOn(content, "\n")
    IN  JoinWith([j \in 1..Len(lines) |-> format_line(lines[j])], <<"\n">>)

(***************************************************************************)
(* textwrap.wrap of the Python standard library, with its default options  *)
(***************************************************************************)
WordPunct == Word \cup {"!", "\"", "'", "&", ".", ",", "?"}

Letter == Alpha \cup {"_"}

\* TextWrapper.wordsep_re
wordsep_re ==
    Grp(1, Alt(<<
        Plus(In(Whitespace)),
        Cat(<<Behind(In(WordPunct), 1), Rep(Ch("-"), 2, -1, FALSE), Ahead(In(Word))>>),
        Cat(<<PlusLazy(NotIn(Whitespace)),
              Alt(<<Cat(<<Ch("-"),
                          Alt(<<Behind(Cat(<<In(Letter), In(Letter), Ch("-")>>), 3),
                                Behind(Cat(<<In(Letter), Ch("-"), In(Letter), Ch("-")>>), 4)>>),
                          Ahead(Cat(<<In(Letter), Opt(Ch("-")), In(Letter)>>))>>),
                    Ahead(Alt(<<In(Whitespace), EndOfString>>)),
                    Cat(<<Behind(In(WordPunct), 1),
                          Ahead(Cat(<<Rep(Ch("-"), 2, -1, FALSE), In(Word)>>))>>)>>)>>)>>))

\* the column after the text s without tabs that starts at the column col
ColumnAfter(s, col) ==
    LET breaks == {k \in 1..Len(s) : s[k] \in {"\n", "\r"}}
    IN  IF breaks = {} THEN col + Len(s) ELSE Len(s) - Max(breaks)

\* s up to its first tab, at position p, with the tab expanded
ExpandFirstTab(s, p, col) ==
    SubSeq(s, 1, p - 1) \o [k \in 1..(8 - (ColumnAfter(SubSeq(s, 1, p - 1), col) % 8)) |-> " "]

\* str.expandtabs(8), col being the column of the first character of s
RECURSIVE ExpandTabs(_, _)
ExpandTabs(s, col) ==
    LET tabs == {k \in 1..Len(s) : s[k] = "\t"}
    IN  IF tabs = {} THEN s
        ELSE ExpandFirstTab(s, Min(tabs), col) \o ExpandTabs(SubSeq(s, Min(tabs) + 1, Len(s)), 0)

\* TextWrapper._munge_whitespace
munge_whitespace(text) ==
    LET expanded == ExpandTabs(text, 0)
    IN  [k \in 1..Len(expanded) |->
            IF expanded[k] \in Whitespace THEN " " ELSE expanded[k]]

\* TextWrapper._split
split_chunks(text) == NonEmpty(Split(wordsep_re, 1, munge_whitespace(text)))

IsBlank(chunk) == Len(Strip(chunk, Whitespace)) = 0

\* the inner loop of _wrap_chunks: the chunks that fit on the current line
RECURSIVE FillLine(_, _, _, _)
FillLine(chunks, cur_line, cur_len, width) ==
    IF Len(chunks) > 0 /\ cur_len + Len(Head(chunks)) <= width
    THEN FillLine(Tail(chunks), Append(cur_line, Head(chunks)),
                  cur_len + Len(Head(chunks)), width)
    ELSE [chunks |-> chunks, cur_line |-> cur_line, cur_len |-> cur_len]

\* TextWrapper._handle_long_word for a width of at least 1
handle_long_word(chunks, cur_line, cur_len, width) ==
    LET space_left == width - cur_len
        chunk == Head(chunks)
        hyphens == {k \in 1..space_left : chunk[k] = "-"}
        hyphen == IF hyphens = {} THEN 0
                  ELSE CHOOSE k \in hyphens : \A j \in hyphens : j <= k
        end == IF hyphen > 1 /\ \E j \in 1..(hyphen - 1) : chunk[j] # "-"
               THEN hyphen
               ELSE space_left
    IN  [chunks |-> <<SubSeq(chunk, end + 1, Len(chunk))>> \o Tail(chunks),
         cur_line |-> Append(cur_line, SubSeq(chunk, 1, end)),
         cur_len |-> cur_len + end]

\* TextWrapper._wrap_chunks for a width of at least 1
RECURSIVE wrap_chunks(_, _, _)
\* the line that is being filled, after the chunk that is too long for any
\* line is broken
break_long_word(filled, width) ==
    IF Len(filled.chunks) > 0 /\ Len(Head(filled.chunks)) > width
    THEN handle_long_word(filled.chunks, filled.cur_line, filled.cur_len, width)
    ELSE filled

\* the line without the whitespace chunk at its end
drop_trailing_space(cur_line) ==
    IF Len(cur_line) > 0 /\ IsBlank(cur_line[Len(cur_line)])
    THEN SubSeq(cur_line, 1, Len(cur_line) - 1)
    ELSE cur_line

add_line(lines, cur_line) ==
    IF Len(cur_line) > 0 THEN Append(lines, Join(cur_line)) ELSE lines

wrap_chunks(chunks, width, lines) ==
    IF Len(chunks) = 0 THEN lines
    ELSE
    LET kept == IF IsBlank(Head(chunks)) /\ Len(lines) > 0 THEN Tail(chunks) ELSE chunks
        broken == break_long_word(FillLine(kept, <<>>, 0, width), width)
    IN  wrap_chunks(broken.chunks, width, add_line(lines, drop_trailing_space(broken.cur_line)))

\* textwrap.wrap(text, width) for a width of at least 1 (it raises ValueError
\* for any other width)
textwrap_wrap(text, width) == wrap_chunks(split_chunks(text), width, <<>>)

(***************************************************************************)
(* The code-block rules                                                    *)
(***************************************************************************)
LINE_LENGTH == 80

replace_by_tabs(ms, content) == Sub(ms, [k \in 1..Len(ms) |-> <<"\t">>], content)

\* content.replace(" " * TAB_WIDTH, "\t")
convert_spaces_to_tabs(content) ==
    replace_by_tabs(FindAll(Lit([k \in 1..TAB_WIDTH |-> " "]), content, 1), content)

count_indents(text) == Len(text) - Len(LStrip(text, {"\t"}))

\* text.count("#", indent_level, indent_level + 2)
dash_count(text) ==
    Cardinality({k \in (count_indents(text) + 1)..(count_indents(text) + 2) :
                    k <= Len(text) /\ text[k] = "#"})

\* the width that is left after the indentation alone
wrap_length_after_indents(text) == LINE_LENGTH - TAB_WIDTH * count_indents(text)

wrap_length(text) == LINE_LENGTH - (TAB_WIDTH * count_indents(text) + dash_count(text) + 1)

\* fill_comment, for a comment whose wrap_length is at least 1
fill_wrapped(text, wrapped_text) ==
    LET prefix == [k \in 1..count_indents(text) |-> "\t"]
                  \o [k \in 1..dash_count(text) |-> "#"] \o <<" ">>
    IN  JoinWith([k \in 1..Len(wrapped_text) |-> prefix \o wrapped_text[k]], <<"\n">>)

fill_comment(text) ==
    fill_wrapped(text, textwrap_wrap(LStrip(text, {"\t", "#", " "}), wrap_length(text)))

\* textwrap.wrap raises ValueError in fill_comment for one of the comments ms
\* of content
wrap_raises(content, ms) ==
    \E k \in 1..Len(ms) : wrap_length(Slice(content, ms[k].b, ms[k].e)) <= 0

fill_comment_raises(content) == wrap_raises(content, FindAll(RE_COMMENT, content, 1))

gdscript == <<"g", "d", "s", "c", "r", "i", "p", "t">>

\* format_code_block: raised tells that it raises (AttributeError when the
\* block does not match, ValueError from textwrap), out is its result
\* re.sub("\t*#.+", fill_comment, content, flags=re.MULTILINE), ms being the
\* comments of content
fill_comments(ms, content) ==
    Sub(ms, [k \in 1..Len(ms) |-> fill_comment(Group0(content, ms[k]))], content)

format_code(language, content) ==
    IF fill_comment_raises(content) THEN [raised |-> TRUE, out |-> <<>>]
    ELSE [raised |-> FALSE,
          out |-> Fence \o language \o <<"\n">>
                  \o fill_comments(FindAll(RE_COMMENT, content, 1), content) \o Fence]

format_match(text, match) ==
    IF ~match.ok THEN [raised |-> TRUE, out |-> <<>>]
    ELSE format_code(IF match.g[1] = <<0, 0>> THEN gdscript
                     ELSE Slice(text, match.g[1][1], match.g[1][2]),
                     convert_spaces_to_tabs(Slice(text, match.g[2][1], match.g[2][2])))

format_code_block(text) == format_match(text, MatchAt(RE_CODE_BLOCK, text, 1))

(***************************************************************************)
(* process_content                                                         *)
(***************************************************************************)
is_code_block(text) == StartsWith(text, Fence)

\* the pairs of is_unformatted_block without the pair of the template tags
ignore_pairs_without_template ==
    << <<Fence, Fence>>,
       <<<<"<">>, <<">">>>>,
       <<<<"-", "-", "-">>, <<"-", "-", "-">>>>,
       <<<<"'">>, <<"'">>>>,
       <<<<"\"">>, <<"\"">>>> >>

ignore_pairs ==
    << <<Fence, Fence>>,
       <<<<"<">>, <<">">>>>,
       <<<<"-", "-", "-">>, <<"-", "-", "-">>>>,
       <<<<"{", "%">>, <<"%", "}">>>>,
       <<<<"'">>, <<"'">>>>,
       <<<<"\"">>, <<"\"">>>> >>

is_unformatted_block(text) ==
    \E k \in 1..Len(ignore_pairs) :
        /\ StartsWith(LStrip(text, Whitespace), ignore_pairs[k][1])
        /\ EndsWith(RStrip(text, Whitespace), ignore_pairs[k][2])

split_by_regex(text, regex) ==
    IF is_unformatted_block(text) THEN <<text>> ELSE Split(regex.re, regex.ng, text)

\* the patterns of the loop of process_content, with their number of groups
SPLIT_REGEXES ==
    << [re |-> RE_SPLIT_FRONT_MATTER, ng |-> 1],
       [re |-> RE_SPLIT_HTML, ng |-> 1],
       [re |-> RE_SPLIT_TEMPLATE, ng |-> 1],
       [re |-> RE_INSIDE_DOUBLE_QUOTES, ng |-> 1],
       [re |-> RE_INSIDE_SINGLE_QUOTES, ng |-> 1],
       [re |-> RE_MARKDOWN_BLOCKQUOTE, ng |-> 2] >>

\* the loop of process_content from its k-th pattern on
RECURSIVE SplitFrom(_, _)
SplitFrom(sections, k) ==
    IF k > Len(SPLIT_REGEXES) THEN sections
    ELSE SplitFrom(Join([j \in 1..Len(sections) |->
                            split_by_regex(sections[j], SPLIT_REGEXES[k])]), k + 1)

\* the sections of process_content, before the empty ones are filtered out
split_sections(content) == SplitFrom(Split(RE_SPLIT_CODE_BLOCK, 1, content), 1)

\* the inner loop of process_content over the chunks of a prose block: ignored
\* tells that the chunk is copied as it is, otherwise it goes through
\* format_content; out is what is appended to formatted_chunks
prose_chunk(chunk) ==
    IF MatchAt(RE_TO_IGNORE, chunk, 1).ok
    THEN [text |-> chunk, ignored |-> TRUE, out |-> chunk]
    ELSE [text |-> chunk, ignored |-> FALSE, out |-> format_content(chunk)]

format_chunks(chunks) == [j \in 1..Len(chunks) |-> prose_chunk(chunks[j])]

prose_chunks(block) == format_chunks(Split(RE_TO_IGNORE, 1, block))

\* the body of the loop of process_content over the sections: which branch
\* handles the block (kind), whether it raises, the chunks of a prose block,
\* and what is appended to formatted_sections
code_block(r) == [kind |-> "code", raised |-> r.raised, chunks |-> <<>>, out |-> r.out]

prose_block(chunks) ==
    [kind |-> "prose", raised |-> FALSE, chunks |-> chunks,
     out |-> Join([j \in 1..Len(chunks) |-> chunks[j].out])]

format_block(block) ==
    IF is_code_block(block) THEN code_block(format_code_block(block))
    ELSE IF is_unformatted_block(block)
    THEN [kind |-> "unformatted", raised |-> FALSE, chunks |-> <<>>, out |-> block]
    ELSE prose_block(prose_chunks(block))

\* the result of process_content for its sections and for what the loop does
\* with each of them
join_sections(sections, blocks) ==
    LET raised == \E j \in 1..Len(sections) : blocks[j].raised
    IN  [sections |-> sections,
         blocks |-> blocks,
         raised |-> raised,
         out |-> IF raised THEN <<>> ELSE Join([j \in 1..Len(sections) |-> blocks[j].out])]

format_sections(sections) ==
    join_sections(sections, [j \in 1..Len(sections) |-> format_block(sections[j])])

\* process_content: sections are the sections after the empty ones are
\* filtered out, blocks what the loop does with each of them, raised tells
\* that an exception leaves the function, out is the returned text
process_content(content) == format_sections(NonEmpty(split_sections(content)))

(***************************************************************************)
(* The formatter as a state machine: a document is written token by token, *)
(* process_content is applied to it, and applied again to its own result.  *)
(***************************************************************************)
VARIABLES
    content,        \* the markdown text given to process_content
    typed,          \* the number of tokens of content
    stage,          \* "edit", "processed", "reprocessed"
    processed,      \* process_content(content)
    reprocessed     \* process_content(processed.out)

formatVars == <<content, typed, stage, processed, reprocessed>>

\* The variables of main: the command line, the file system, the standard streams
VARIABLES
    args,           \* the parsed command line: files, output, in_place
    version_info,   \* sys.version_info: major, minor
    disk,           \* the file system: path -> Missing, Directory or a text
    disk0,          \* the file system when main starts
    directories,    \* the directories that exist
    pc,             \* "version", "paths", "read", "output", "done", "exited", "raised"
    exit_code,      \* the argument of sys.exit, -1 before the program ends
    exception,      \* the call that raised when pc = "raised"
    next,           \* the index of the loop over filepaths or documents
    documents,      \* the list of ProcessedDocument
    stdout,         \* the texts printed on the standard output
    stderr,         \* the number of messages printed by print_error
    writes          \* the destinations written by output_result, in order

mainVars ==
    <<args, version_info, disk, disk0, directories, pc, exit_code, exception,
      next, documents, stdout, stderr, writes>>

\* The variables of scons/include.py
VARIABLES
    project_files,      \* the list that find_godot_project_files returns
    include_content,    \* the document given to replace_includes
    files_map,          \* the dictionary files: name -> path and anchors
    replaced,           \* the number of matches that replace_include has replaced
    replacements,       \* what replace_include returned for them
    include_pc,         \* "sub", "returned", "exited" or the name of an exception
    include_exit_code,  \* the argument of sys.exit, -1 before the program ends
    include_output      \* what replace_includes returns

includeVars ==
    <<project_files, include_content, files_map, replaced, replacements, include_pc,
      include_exit_code, include_output>>

\* The variables of commit-message.py
VARIABLES
    commit_message,     \* the text of the file named by sys.argv[1]
    commit_pc,          \* "type", "structure", "returned" or "exited"
    commit_exit_code,   \* the argument of exit, -1 before the program ends
    commit_stdout       \* the error message that main prints, "" when none

commitVars == <<commit_message, commit_pc, commit_exit_code, commit_stdout>>

\* The variables of scons/prepare_for_mavenseed.py
VARIABLES
    maven_args,         \* the parsed command line: filepaths, overwrite, print_files
    maven_disk,         \* the file system: path -> text, or Missing
    output_exists,      \* whether args.output_directory exists
    valid_filepaths,    \* the list of line 86
    DIST_DIRECTORY,     \* the global of line 92, <<>> while unset
    overwrite_all,      \* the flag of line 100
    maven_next,         \* the index in valid_filepaths of the next file of the loop
    maven_pc,           \* "start", "loop", "print", "returned", "exited" or an exception
    maven_exit_code,    \* the argument of exit, -1 before the program ends
    maven_log           \* one record for each iteration of the loop that ended

mavenVars ==
    <<maven_args, maven_disk, output_exists, valid_filepaths, DIST_DIRECTORY,
      overwrite_all, maven_next, maven_pc, maven_exit_code, maven_log>>

\* The variables of scripts/godot_3_to_4_rename_files.py
VARIABLES
    old_name,           \* the name given to to_snake_case
    new_name,           \* what to_snake_case returns for old_name
    newer_name,         \* what to_snake_case returns for new_name
    rename_pc           \* "name", "renamed" or "renamed again"

renameVars == <<old_name, new_name, newer_name, rename_pc>>

\* The variables of highlight_code.py
VARIABLES
    md_file,            \* the text of the markdown document
    md_typed,           \* the number of pieces written in it
    returncodes,        \* the code that chroma returned for each code block
    highlighted,        \* what highlight_code_blocks returns
    highlight_pc        \* "edit" or "returned"

highlightVars == <<md_file, md_typed, returncodes, highlighted, highlight_pc>>

\* The variables of table_of_contents.py
VARIABLES
    toc_content,        \* the lines of the file named by sys.argv[1]
    toc_stdout,         \* what main prints
    toc_exit_code,      \* the argument of sys.exit, -1 before the program ends
    toc_pc              \* "edit", "returned" or "exited"

tocVars == <<toc_content, toc_stdout, toc_exit_code, toc_pc>>

\* the variables of the programs other than format_tutorials.py
toolVars == <<includeVars, commitVars, mavenVars, renameVars, highlightVars, tocVars>>

exceptInclude ==
    <<formatVars, mainVars, commitVars, mavenVars, renameVars, highlightVars, tocVars>>

exceptCommit ==
    <<formatVars, mainVars, includeVars, mavenVars, renameVars, highlightVars, tocVars>>

exceptMaven ==
    <<formatVars, mainVars, includeVars, commitVars, renameVars, highlightVars, tocVars>>

exceptRename ==
    <<formatVars, mainVars, includeVars, commitVars, mavenVars, highlightVars, tocVars>>

exceptHighlight ==
    <<formatVars, mainVars, includeVars, commitVars, mavenVars, renameVars, tocVars>>

exceptToc ==
    <<formatVars, mainVars, includeVars, commitVars, mavenVars, renameVars, highlightVars>>

vars == <<formatVars, mainVars, toolVars>>

\* the number of tokens of a document
MaxTokens == 3

\* the pieces of text that the documents are made of
Tokens ==
    { <<"1">>, <<"\n", "1">>, <<"-">>, <<"*">>, <<"N", "o", "d", "e">>,
      <<BackTick, "1", BackTick>>, <<"\"", "a", "\"">>,
      <<"{", "%">>, <<"%", "}">>, Fence,
      <<" ", "C", "t", "r", "l", "+", "A">> }

NotProcessed == [sections |-> <<>>, blocks |-> <<>>, raised |-> FALSE, out |-> <<>>]

FormatInit ==
    /\ content = <<>>
    /\ typed = 0
    /\ stage = "edit"
    /\ processed = NotProcessed
    /\ reprocessed = NotProcessed

\* one more token is written at the end of the document
Type(token) ==
    /\ stage = "edit"
    /\ typed < MaxTokens
    /\ content' = content \o token
    /\ typed' = typed + 1
    /\ UNCHANGED <<stage, processed, reprocessed>>
    /\ UNCHANGED <<mainVars, toolVars>>

\* process_content(content)
Process ==
    /\ stage = "edit"
    /\ stage' = "processed"
    /\ processed' = process_content(content)
    /\ UNCHANGED <<content, typed, reprocessed>>
    /\ UNCHANGED <<mainVars, toolVars>>

\* process_content on the text that process_content returned
Reprocess ==
    /\ stage = "processed"
    /\ ~processed.raised
    /\ stage' = "reprocessed"
    /\ reprocessed' = process_content(processed.out)
    /\ UNCHANGED <<content, typed, processed>>
    /\ UNCHANGED <<mainVars, toolVars>>

(***************************************************************************)
(* The same machine for a code block: a fence is opened with a language    *)
(* tag or without one, lines of code are written, and process_content is   *)
(* applied to the block once its fence is closed.                          *)
(***************************************************************************)
\* the number of lines of a code block
MaxLines == 2

\* what follows the opening fence: nothing, a tag of lowercase letters, a tag
\* with a digit
Languages == { <<>>, <<"g", "d">>, <<"p", "y", "3">> }

\* the lines of code: plain, indented by four and by six spaces, with four
\* spaces after a name, a comment on the whole line, an indented one, a
\* comment at the end of a line of code, a string with a number sign
CodeLines ==
    { <<"x", "\n">>,
      <<" ", " ", " ", " ", "x", "\n">>,
      <<" ", " ", " ", " ", " ", " ", "x", "\n">>,
      <<"x", " ", " ", " ", " ", "y", "\n">>,
      <<"#", " ", "a", "\n">>,
      <<" ", " ", " ", " ", "#", "a", "\n">>,
      <<"x", " ", "#", "1", "\n">>,
      <<"\"", "#", "f", "\"", "\n">> }

\* the opening fence of a code block is written
OpenFence(language) ==
    /\ stage = "edit"
    /\ content = <<>>
    /\ content' = Fence \o language \o <<"\n">>
    /\ UNCHANGED <<typed, stage, processed, reprocessed>>
    /\ UNCHANGED <<mainVars, toolVars>>

\* one more line is written in the code block
TypeCode(line) ==
    /\ stage = "edit"
    /\ content # <<>>
    /\ typed < MaxLines
    /\ content' = content \o line
    /\ typed' = typed + 1
    /\ UNCHANGED <<stage, processed, reprocessed>>
    /\ UNCHANGED <<mainVars, toolVars>>

\* the fence is closed and the document goes through process_content, which
\* gives the block to format_code_block
ProcessCodeBlock ==
    /\ stage = "edit"
    /\ content # <<>>
    /\ content' = content \o Fence
    /\ stage' = "processed"
    /\ processed' = process_content(content \o Fence)
    /\ UNCHANGED <<typed, reprocessed>>
    /\ UNCHANGED <<mainVars, toolVars>>

(***************************************************************************)
(* The same machine for one line of prose, written word by word.           *)
(***************************************************************************)
\* the number of words of a line of prose
MaxWords == 3

\* the words of a line: a word in lowercase, names of the list
\* WORDS_TO_KEEP_UNFORMATTED, a word in capitals, a capitalized word, and the
\* elements of keyboard shortcuts
Words ==
    { <<"x">>,
      <<" ", "G", "o", "d", "o", "t">>,
      <<" ", "S", "t", "a", "c", "k">>,
      <<" ", "O", "v", "e", "r", "f", "l", "o", "w">>,
      <<" ", "A", "B">>,
      <<" ", "B", "i", "g">>,
      <<"C", "t", "r", "l", "+">>,
      <<" ", "C", "t", "r", "l", "+">>,
      <<"S", "h", "i", "f", "t", "+">>,
      <<"A">>,
      <<"F", "1">> }

\* one more word is written at the end of the line
TypeWord(word) ==
    /\ stage = "edit"
    /\ typed < MaxWords
    /\ content' = content \o word
    /\ typed' = typed + 1
    /\ UNCHANGED <<stage, processed, reprocessed>>
    /\ UNCHANGED <<mainVars, toolVars>>

\* The pieces of a document with segments of every kind: a line of prose, a
\* blockquote line, a front matter, a pair of HTML tags and a quoted string,
\* each of them with a capitalized word that the prose rules italicize
Segments ==
    { <<"x", "\n">>,
      <<"a", " ", "B", "i", "g", "\n">>,
      <<">", " ", "a", " ", "B", "i", "g", "\n">>,
      <<"-", "-", "-", "\n", "a", " ", "B", "i", "g", "\n", "-", "-", "-", "\n">>,
      <<"<", "b", ">", "a", " ", "B", "i", "g", "<", "/", "b", ">">>,
      <<" ", "\"", "a", " ", "B", "i", "g", "\"", " ">> }

\* The pieces of a document with headings, links and images: a line of prose,
\* the start of a heading, the end of a line with a capitalized word, a quoted
\* string, a pair of HTML tags, a link and an image
HeadingTokens ==
    { <<"x", "\n">>,
      <<"#", " ", "a">>,
      <<" ", "B", "i", "g", "\n">>,
      <<" ", "\"", "x", "\"">>,
      <<"<", "b", ">", "x", "<", "/", "b", ">">>,
      <<"[", "a", " ", "B", "i", "g", "]", "(", "b", ")">>,
      <<"!", "[", "a", " ", "B", "i", "g", "]", "(", "b", ")">> }

\* The words of a line on which several rules of FORMATTERS can fire: a word
\* in lowercase, a keyboard shortcut and its keys, numbers, a color, a
\* capitalized word and a name of variable
RuleWords ==
    { <<"x">>,
      <<" ", "C", "t", "r", "l", "+">>,
      <<"A">>,
      <<"1">>,
      <<" ", "5">>,
      <<" ", "#", "f", "f", "f">>,
      <<" ", "B", "i", "g">>,
      <<" ", "f", "_", "x">> }

(***************************************************************************)
(* The same machine for one comment on a line of its own in a code block:  *)
(* the line is opened with its indentation and its markers, words are      *)
(* written after them, and process_content is applied to the block.        *)
(***************************************************************************)
\* the number of words of a comment
MaxCommentWords == 3

\* the number of characters of a comment line
MaxComment == 100

\* the indentations of a comment line
CommentIndents == { <<>>, <<"\t">> }

\* the markers of a comment line: one, two and three of them
CommentMarkers == { <<"#">>, <<"#", "#">>, <<"#", "#", "#">> }

\* what stands between the markers and the first word
CommentSpaces == { <<>>, <<" ">> }

\* the words of a comment: a letter, a word of 18 letters, a word of 60
CommentWords ==
    { [k \in 1..1 |-> "a"], [k \in 1..18 |-> "a"], [k \in 1..60 |-> "a"] }

\* the first line of a block without language tag
BlockStart == Fence \o <<"\n">>

\* the comment line that is being written in the block
CommentLine == SubSeq(content, Len(BlockStart) + 1, Len(content))

\* the block is opened and the indentation and the markers of a comment are
\* written on its first line
OpenComment(indent, markers, space) ==
    /\ stage = "edit"
    /\ content = <<>>
    /\ content' = BlockStart \o indent \o markers \o space
    /\ UNCHANGED <<typed, stage, processed, reprocessed>>
    /\ UNCHANGED <<mainVars, toolVars>>

\* one more word is written at the end of the comment, after a space when it
\* is not the first one
TypeComment(word) ==
    /\ stage = "edit"
    /\ content # <<>>
    /\ typed < MaxCommentWords
    /\ Len(CommentLine) + Len(word) + (IF typed = 0 THEN 0 ELSE 1) <= MaxComment
    /\ content' = content \o (IF typed = 0 THEN <<>> ELSE <<" ">>) \o word
    /\ typed' = typed + 1
    /\ UNCHANGED <<stage, processed, reprocessed>>
    /\ UNCHANGED <<mainVars, toolVars>>

\* the line is ended, the fence is closed and the document goes through
\* process_content, which gives the block to format_code_block
ProcessComment ==
    /\ stage = "edit"
    /\ content # <<>>
    /\ content' = content \o <<"\n">> \o Fence
    /\ stage' = "processed"
    /\ processed' = process_content(content \o <<"\n">> \o Fence)
    /\ UNCHANGED <<typed, reprocessed>>
    /\ UNCHANGED <<mainVars, toolVars>>

(***************************************************************************)
(* main: the command line, the file system and the standard streams        *)
(***************************************************************************)
\* the length of the list of files of the command line
MaxFiles == 2

Missing == <<"Missing">>

Directory == <<"Directory">>

DotMd == <<".", "m", "d">>

\* the paths that the command line can name
InputPaths ==
    { <<"a">> \o DotMd,
      <<"d", "/", "a">> \o DotMd,
      <<"B", ".", "M", "D">>,
      <<"n", ".", "t", "x", "t">> }

\* the values of --output: not given, the directory of a source file, another one
Outputs == { <<>>, <<"d">>, <<"o">> }

\* the versions of Python that run the program
Versions ==
    { [major |-> 2, minor |-> 7], [major |-> 3, minor |-> 7],
      [major |-> 3, minor |-> 8], [major |-> 3, minor |-> 12],
      [major |-> 4, minor |-> 0] }

\* the texts that a file can hold
Documents == { <<"1">>, Fence }

\* os.path.basename
basename(path) ==
    LET slashes == {k \in 1..Len(path) : path[k] = "/"}
    IN  IF slashes = {} THEN path ELSE SubSeq(path, Max(slashes) + 1, Len(path))

\* os.path.dirname
dirname(path) ==
    LET slashes == {k \in 1..Len(path) : path[k] = "/"}
    IN  IF slashes = {} THEN <<>> ELSE SubSeq(path, 1, Max(slashes) - 1)

\* os.path.join(a, b) for a relative b
path_join(a, b) ==
    IF Len(a) = 0 \/ a[Len(a)] = "/" THEN a \o b ELSE a \o <<"/">> \o b

\* os.path.exists
exists(path) == disk[path] # Missing

\* every path that the program can name
AllPaths ==
    InputPaths \cup {path_join(o, basename(p)) : o \in Outputs \ {<<>>}, p \in InputPaths}

\* the lists of one to n elements of S
RECURSIVE ListsUpTo(_, _)
ListsUpTo(S, n) ==
    IF n = 0 THEN {}
    ELSE LET shorter == ListsUpTo(S, n - 1)
         IN  {<<x>> : x \in S} \cup shorter \cup {Append(l, x) : l \in shorter, x \in S}

Range(list) == {list[k] : k \in 1..Len(list)}

\* The state in which main starts: a command line of one file or more (the
\* files argument has nargs="+"), and a file system in which each file of the
\* command line is missing, is a directory or holds a text.
MainInit ==
    /\ args \in [files : ListsUpTo(InputPaths, MaxFiles), output : Outputs, in_place : BOOLEAN]
    /\ version_info \in Versions
    /\ \E held \in [Range(args.files) -> {Missing, Directory} \cup Documents] :
            disk = [p \in AllPaths |-> IF p \in Range(args.files) THEN held[p] ELSE Missing]
    /\ disk0 = disk
    /\ directories \in SUBSET (Outputs \ {<<>>})
    /\ \A p \in AllPaths : disk[p] # Missing /\ Len(dirname(p)) > 0 => dirname(p) \in directories
    /\ pc = "version"
    /\ exit_code = -1
    /\ exception = "none"
    /\ next = 1
    /\ documents = <<>>
    /\ stdout = <<>>
    /\ stderr = 0
    /\ writes = <<>>

\* main.is_python_version_compatible
is_python_version_compatible == version_info.major = 3 /\ version_info.minor >= 8

\* main without the test of the Python version
CheckVersion_skipped ==
    /\ pc = "version"
    /\ pc' = "paths"
    /\ UNCHANGED <<args, version_info, disk, disk0, directories, exit_code, exception, next,
                   documents, stdout, stderr, writes>>
    /\ UNCHANGED <<formatVars, toolVars>>

\* main, up to the test of the Python version
CheckVersion ==
    /\ pc = "version"
    /\ IF is_python_version_compatible
       THEN /\ pc' = "paths"
            /\ UNCHANGED <<exit_code, stderr>>
       ELSE /\ pc' = "exited"
            /\ exit_code' = ERROR_PYTHON_VERSION_TOO_OLD
            /\ stderr' = stderr + 1
    /\ UNCHANGED <<args, version_info, disk, disk0, directories, exception, next,
                   documents, stdout, writes>>
    /\ UNCHANGED <<formatVars, toolVars>>

\* f.lower().endswith(".md") and os.path.exists(f)
is_valid_path(f) == EndsWith(StrLower(f), DotMd) /\ exists(f)

\* [f for f in args.files if ...]
filepaths == SelectSeq(args.files, is_valid_path)

\* the test of the paths that reports the incorrect paths and goes on with the
\* other ones
CheckPaths_skipping ==
    /\ pc = "paths"
    /\ pc' = "read"
    /\ stderr' = IF Len(filepaths) # Len(args.files) THEN stderr + 1 ELSE stderr
    /\ UNCHANGED <<args, version_info, disk, disk0, directories, exit_code, exception, next,
                   documents, stdout, writes>>
    /\ UNCHANGED <<formatVars, toolVars>>

\* main: the test of the paths of the command line
CheckPaths ==
    /\ pc = "paths"
    /\ IF Len(filepaths) # Len(args.files)
       THEN /\ pc' = "exited"
            /\ exit_code' = ERROR_INCORRECT_FILE_PATHS
            /\ stderr' = stderr + 1
       ELSE /\ pc' = "read"
            /\ UNCHANGED <<exit_code, stderr>>
    /\ UNCHANGED <<args, version_info, disk, disk0, directories, exception, next,
                   documents, stdout, writes>>
    /\ UNCHANGED <<formatVars, toolVars>>

\* main: one turn of the loop over filepaths: the file is opened and read, its
\* text goes through process_content, the result is added to documents. The
\* loop ends with an exception when the file cannot be opened or when
\* process_content raises.
AddDocument(file_path, result) ==
    IF result.raised
    THEN /\ pc' = "raised"
         /\ exception' = "process_content"
         /\ UNCHANGED <<documents, next>>
    ELSE /\ documents' = Append(documents, [file_path |-> file_path, content |-> result.out])
         /\ next' = IF next = Len(filepaths) THEN 1 ELSE next + 1
         /\ pc' = IF next = Len(filepaths) THEN "output" ELSE "read"
         /\ UNCHANGED exception

\* one turn of the loop that opens the source file for writing, which empties
\* it, before its text goes through process_content
ReadAndProcess_truncating ==
    /\ pc = "read"
    /\ next <= Len(filepaths)
    /\ IF disk[filepaths[next]] = Directory
       THEN /\ pc' = "raised"
            /\ exception' = "open"
            /\ UNCHANGED <<documents, next, disk>>
       ELSE /\ AddDocument(filepaths[next], process_content(disk[filepaths[next]]))
            /\ disk' = IF args.in_place THEN [disk EXCEPT ![filepaths[next]] = <<>>] ELSE disk
    /\ UNCHANGED <<args, version_info, disk0, directories, exit_code, stdout, stderr, writes>>
    /\ UNCHANGED <<formatVars, toolVars>>

ReadAndProcess ==
    /\ pc = "read"
    /\ next <= Len(filepaths)
    /\ IF disk[filepaths[next]] = Directory
       THEN /\ pc' = "raised"
            /\ exception' = "open"
            /\ UNCHANGED <<documents, next>>
       ELSE AddDocument(filepaths[next], process_content(disk[filepaths[next]]))
    /\ UNCHANGED <<args, version_info, disk, disk0, directories, exit_code, stdout, stderr, writes>>
    /\ UNCHANGED <<formatVars, toolVars>>

\* output_result(args, document) for the document number next; it raises when
\* the file to write is a directory
OutputResult ==
    /\ pc = "output"
    /\ next <= Len(documents)
    /\ LET document == documents[next]
           output_path == path_join(args.output, basename(document.file_path))
           target == IF args.in_place THEN document.file_path ELSE output_path
           finished == /\ next' = next + 1
                       /\ pc' = IF next = Len(documents) THEN "done" ELSE "output"
                       /\ exit_code' = IF next = Len(documents) THEN 0 ELSE exit_code
                       /\ UNCHANGED exception
       IN  IF ~args.in_place /\ args.output = <<>>
           THEN /\ stdout' = Append(stdout, document.content \o <<"\n">>)
                /\ writes' = Append(writes, [document |-> next, to |-> "stdout", path |-> <<>>])
                /\ finished
                /\ UNCHANGED <<disk, directories>>
           ELSE /\ directories' = IF args.in_place THEN directories
                                  ELSE directories \cup {args.output}
                /\ IF disk[target] = Directory
                   THEN /\ pc' = "raised"
                        /\ exception' = "open"
                        /\ UNCHANGED <<disk, writes, next, exit_code>>
                   ELSE /\ disk' = [disk EXCEPT ![target] = document.content]
                        /\ writes' = Append(writes, [document |-> next, to |-> "file", path |-> target])
                        /\ finished
                /\ UNCHANGED stdout
    /\ UNCHANGED <<args, version_info, disk0, documents, stderr>>
    /\ UNCHANGED <<formatVars, toolVars>>

(***************************************************************************)
(* scons/include.py: the include templates of a document are replaced by   *)
(* the content of files of the project                                     *)
(***************************************************************************)
ERROR_ATTEMPT_TO_FIND_DUPLICATE_FILE == 2

ERROR_ANCHOR_NOT_FOUND == 3

Quote == In({"\"", "'"})

\* group 1 is the group file, group 2 is the group anchor
REGEX_INCLUDE ==
    Cat(<<Bol(TRUE), Lit(<<"{", "%">>), Star(Ch(" ")), Lit(<<"i", "n", "c", "l", "u", "d", "e", " ">>), Opt(Quote),
          Grp(1, Cat(<<PlusLazy(Dot), Ch("."), Plus(In(AlNum))>>)), Opt(Quote),
          Star(Ch(" ")), Opt(Quote), Opt(Grp(2, Plus(In(Word)))), Opt(Quote),
          Star(Ch(" ")), Lit(<<"%", "}">>), Eol(TRUE)>>)

\* the number of include templates of a document
MaxIncludes == 2

\* the files of the project on the disk, with their text
ProjectDisk ==
    [p \in {<<"p", "/", "F", ".", "g", "d">>, <<"q", "/", "F", ".", "g", "d">>, <<"p", "/", "G", ".", "g", "d">>} |->
        IF p = <<"p", "/", "G", ".", "g", "d">>
        THEN <<"#", " ", "A", "N", "C", "H", "O", "R", ":", " ", "a", "\n", "y", "\n", "#", " ", "E", "N", "D", ":", " ", "a", "\n", "#", " ", "A", "N", "C", "H", "O", "R", ":", " ", "a", "b", "\n", "w", "\n", "#", " ", "E", "N", "D", ":", " ", "a", "b">>
        ELSE <<"x", "\n", "#", " ", "A", "N", "C", "H", "O", "R", ":", " ", "a", "\n", "y", "\n", "#", " ", "E", "N", "D", ":", " ", "a", "\n", "z">>]

\* the lists of files that find_godot_project_files returns: every name
\* once, or the name F.gd twice
Projects == { <<<<"p", "/", "F", ".", "g", "d">>, <<"p", "/", "G", ".", "g", "d">>>>, <<<<"p", "/", "F", ".", "g", "d">>, <<"q", "/", "F", ".", "g", "d">>>> }

\* the lines of a document: the three forms of the template, whole file and
\* anchor, by name and by path, an anchor that the file does not have, and
\* a line of text
IncludeLines ==
    { <<"{", "%", " ", "i", "n", "c", "l", "u", "d", "e", " ", "F", ".", "g", "d", " ", "%", "}">>,
      <<"{", "%", " ", "i", "n", "c", "l", "u", "d", "e", " ", "F", ".", "g", "d", " ", "a", " ", "%", "}">>,
      <<"{", "%", " ", "i", "n", "c", "l", "u", "d", "e", " ", "p", "/", "F", ".", "g", "d", " ", "a", " ", "%", "}">>,
      <<"{", "%", " ", "i", "n", "c", "l", "u", "d", "e", " ", "G", ".", "g", "d", " ", "a", " ", "%", "}">>,
      <<"{", "%", " ", "i", "n", "c", "l", "u", "d", "e", " ", "F", ".", "g", "d", " ", "z", " ", "%", "}">>,
      <<"{", "%", " ", "i", "n", "c", "l", "u", "d", "e", " ", "p", "/", "F", ".", "g", "d", " ", "%", "}">>,
      <<"x">> }

\* find_duplicate_files: files_map, from the name of a file to its record,
\* and the names found more than once; cached tells that the record has the
\* key "anchors"
FirstWithName(files, name) ==
    files[Min({k \in 1..Len(files) : basename(files[k]) = name})]

find_duplicate_files(files) ==
    [files_map |-> [name \in {basename(files[k]) : k \in 1..Len(files)} |->
                        [path |-> FirstWithName(files, name), cached |-> FALSE, anchors |-> <<>>]],
     duplicate_files |-> {basename(files[k]) : k \in
                            {k \in 1..Len(files) : \E h \in 1..(k - 1) :
                                basename(files[h]) = basename(files[k])}}]

\* get_file_content.is_filename
is_filename(file_path) == \A k \in 1..Len(file_path) : file_path[k] \notin {"/", "\\"}

\* get_file_content: raised names the exception that leaves it, "" when it
\* returns content
get_file_content(file_path, files, duplicate_files) ==
    IF is_filename(file_path)
    THEN IF file_path \in duplicate_files THEN [raised |-> "AssertionError", content |-> <<>>]
         ELSE IF file_path \notin DOMAIN files THEN [raised |-> "KeyError", content |-> <<>>]
         ELSE [raised |-> "", content |-> ProjectDisk[files[file_path].path]]
    ELSE IF file_path \notin DOMAIN ProjectDisk THEN [raised |-> "AssertionError", content |-> <<>>]
         ELSE [raised |-> "", content |-> ProjectDisk[file_path]]

\* find_all_file_anchors.find_all_anchors_in_file: re.findall returns the
\* group 1 of each match
anchor_names(text, ms) == {Slice(text, ms[k].g[1][1], ms[k].g[1][2]) : k \in 1..Len(ms)}

find_all_anchors_in_file(text) ==
    anchor_names(text,
        FindAll(Cat(<<Ch("#"), Opt(Ch(" ")), Lit(<<"A", "N", "C", "H", "O", "R", ":">>), Opt(Ch(" ")),
                      Grp(1, Plus(In(Word)))>>), text, 1))

\* ANCHOR_REGEX_TEMPLATE.format(anchor, anchor), with re.DOTALL | re.MULTILINE
ANCHOR_REGEX(anchor) ==
    Cat(<<Bol(TRUE), Star(In(Whitespace)), Ch("#"), Opt(Ch(" ")), Lit(<<"A", "N", "C", "H", "O", "R", ":">>), Opt(Ch(" ")),
          Lit(anchor), Star(In(Whitespace)), Ch("\n"), Grp(1, Plus(DotAll)), Ch("\n"),
          Star(In(Whitespace)), Ch("#"), Opt(Ch(" ")), Lit(<<"E", "N", "D", ":">>), Opt(Ch(" ")), Lit(anchor)>>)

\* the lines of an anchor or of the end of an anchor
RE_ANCHOR_LINE ==
    Cat(<<Bol(TRUE), Star(In(Whitespace)), Ch("#"), Star(Ch(" ")),
          Grp(1, Alt(<<Lit(<<"A", "N", "C", "H", "O", "R">>), Lit(<<"E", "N", "D">>)>>)), Ch(":"), Star(Ch(" ")),
          Plus(In(Word)), Star(In(Whitespace)), Eol(TRUE)>>)

remove_matches(ms, text) == Sub(ms, [k \in 1..Len(ms) |-> <<>>], text)

\* re.sub(r"^\s*# *(ANCHOR|END): *\w+\s*$", "", match.group(1), flags=re.MULTILINE)
anchor_content(text) == remove_matches(FindAll(RE_ANCHOR_LINE, text, 1), text)

\* regex_anchor.search(text)
anchor_search(text, anchor) == FindAll(ANCHOR_REGEX(anchor), text, 1)

\* find_all_file_anchors: exited tells that it ends the program with
\* ERROR_ATTEMPT_TO_FIND_DUPLICATE_FILE, anchor_map is what it returns
anchor_map_of(text, anchors) ==
    IF \E anchor \in anchors : anchor_search(text, anchor) = <<>>
    THEN [exited |-> TRUE, anchor_map |-> <<>>]
    ELSE [exited |-> FALSE,
          anchor_map |-> [anchor \in anchors |->
                anchor_content(Slice(text, anchor_search(text, anchor)[1].g[1][1],
                                              anchor_search(text, anchor)[1].g[1][2]))]]

find_all_file_anchors(text) == anchor_map_of(text, find_all_anchors_in_file(text))

\* the matches of REGEX_INCLUDE in the document, in the order in which
\* REGEX_INCLUDE.sub calls replace_include
include_matches == FindAll(REGEX_INCLUDE, include_content, 1)

duplicate_files == find_duplicate_files(project_files).duplicate_files

\* What a call of replace_include does: pc is "sub" when it returns output,
\* "exited" when it ends the program with exit_code, else the name of the
\* exception that leaves it; cache is the dictionary files after the call.
IncludeRaises(exc, files) == [pc |-> exc, exit_code |-> -1, cache |-> files, output |-> <<>>]

IncludeExits(code, files) == [pc |-> "exited", exit_code |-> code, cache |-> files, output |-> <<>>]

IncludeReturns(output, files) == [pc |-> "sub", exit_code |-> -1, cache |-> files, output |-> output]

\* replace_include with an anchor, once the anchors of the file are known
include_anchor(anchor, anchors, files) ==
    IF anchor \in DOMAIN anchors THEN IncludeReturns(anchors[anchor], files)
    ELSE IncludeExits(ERROR_ANCHOR_NOT_FOUND, files)

\* replace_include when the anchors of the file have to be found: found is
\* what find_all_file_anchors gives for the content of the file
include_found(path, anchor, found, files) ==
    IF found.exited THEN IncludeExits(ERROR_ATTEMPT_TO_FIND_DUPLICATE_FILE, files)
    ELSE include_anchor(anchor, found.anchor_map,
            [files EXCEPT ![path].cached = TRUE, ![path].anchors = found.anchor_map])

include_whole(file, files) ==
    IF file.raised # "" THEN IncludeRaises(file.raised, files)
    ELSE IncludeReturns(file.content, files)

include_part(path, anchor, file, files) ==
    IF file.raised # "" THEN IncludeRaises(file.raised, files)
    ELSE include_found(path, anchor, find_all_file_anchors(file.content), files)

\* replace_includes.replace_include
replace_include(path, anchor, files) ==
    IF anchor = <<>>
    THEN include_whole(get_file_content(path, files, duplicate_files), files)
    ELSE IF path \notin DOMAIN files THEN IncludeRaises("KeyError", files)
    ELSE IF ~files[path].cached
    THEN include_part(path, anchor, get_file_content(path, files, duplicate_files), files)
    ELSE include_anchor(anchor, files[path].anchors, files)

\* the groups file and anchor of the next match
next_file == Slice(include_content, include_matches[replaced + 1].g[1][1],
                                    include_matches[replaced + 1].g[1][2])

next_anchor == Slice(include_content, include_matches[replaced + 1].g[2][1],
                                      include_matches[replaced + 1].g[2][2])

IncludeStep(result) ==
    /\ include_pc' = result.pc
    /\ include_exit_code' = result.exit_code
    /\ files_map' = result.cache
    /\ replacements' = IF result.pc = "sub" THEN Append(replacements, result.output)
                       ELSE replacements
    /\ replaced' = IF result.pc = "sub" THEN replaced + 1 ELSE replaced

\* REGEX_INCLUDE.sub calls replace_include for the next match
ReplaceInclude ==
    /\ include_pc = "sub"
    /\ replaced < Len(include_matches)
    /\ IncludeStep(replace_include(next_file, next_anchor, files_map))
    /\ UNCHANGED <<project_files, include_content, include_output>>
    /\ UNCHANGED exceptInclude

\* REGEX_INCLUDE.sub returns the document with each match replaced
ReturnIncluded ==
    /\ include_pc = "sub"
    /\ replaced = Len(include_matches)
    /\ include_pc' = "returned"
    /\ include_output' = Sub(include_matches, replacements, include_content)
    /\ UNCHANGED <<project_files, include_content, files_map, replaced, replacements,
                   include_exit_code>>
    /\ UNCHANGED exceptInclude

\* process_document, up to the call of replace_includes
IncludeInit ==
    /\ project_files \in Projects
    /\ include_content \in {JoinWith(lines, <<"\n">>) : lines \in ListsUpTo(IncludeLines, MaxIncludes)}
    /\ files_map = find_duplicate_files(project_files).files_map
    /\ replaced = 0
    /\ replacements = <<>>
    /\ include_pc = "sub"
    /\ include_exit_code = -1
    /\ include_output = <<>>

IncludeIdle ==
    /\ project_files = <<>>
    /\ include_content = <<>>
    /\ files_map = <<>>
    /\ replaced = 0
    /\ replacements = <<>>
    /\ include_pc = "sub"
    /\ include_exit_code = -1
    /\ include_output = <<>>

NextInclude ==
    \/ ReplaceInclude
    \/ ReturnIncluded

(***************************************************************************)
(* commit-message.py: the check of a commit message.                       *)
(***************************************************************************)
\* the list of lines 4-16; "improvement" "perf" at line 11 is one string
VALID_COMMIT_TYPES ==
    << <<"b", "u", "i", "l", "d">>,
       <<"c", "h", "o", "r", "e">>,
       <<"c", "i">>,
       <<"d", "o", "c", "s">>,
       <<"f", "e", "a", "t">>,
       <<"f", "i", "x">>,
       <<"i", "m", "p", "r", "o", "v", "e", "m", "e", "n", "t", "p", "e", "r", "f">>,
       <<"r", "e", "f", "a", "c", "t", "o", "r">>,
       <<"r", "e", "v", "e", "r", "t">>,
       <<"s", "t", "y", "l", "e">>,
       <<"t", "e", "s", "t">> >>

\* the four messages of COMMIT_EXAMPLES, without the leading "- "
COMMIT_EXAMPLES ==
    { <<"f", "e", "a", "t", ":", " ", "a", "d", "d", " ", "i", "n", "t", "e", "r", "f", "a", "c", "e", " ", "f", "o", "r", " ", "t", "h", "e", " ", "f", "i", "s", "h", "i", "n", "g", " ", "m", "i", "n", "i", "-", "g", "a", "m", "e">>,
      <<"f", "e", "a", "t", "(", "c", "o", "m", "b", "a", "t", ")", ":", " ", "a", "d", "d", " ", "t", "r", "i", "p", "l", "e", " ", "l", "a", "s", "e", "r", " ", "b", "e", "a", "m", " ", "c", "o", "m", "b", "o">>,
      <<"f", "i", "x", ":", " ", "c", "r", "a", "s", "h", " ", "w", "h", "e", "n", " ", "a", "t", "t", "a", "c", "k", "i", "n", "g", " ", "a", "n", " ", "e", "n", "e", "m", "y", " ", "f", "r", "o", "m", " ", "b", "e", "h", "i", "n", "d">>,
      <<"i", "m", "p", "r", "o", "v", "e", "m", "e", "n", "t", ":", " ", "m", "o", "r", "e", " ", "r", "e", "s", "p", "o", "n", "s", "i", "v", "e", " ", "p", "l", "a", "y", "e", "r", " ", "c", "o", "n", "t", "r", "o", "l", "s">> }

ERROR_MESSAGE_INCORRECT_TYPE == "The type of commit at the start must be one of"

ERROR_MESSAGE_INCORRECT_STRUCTURE == "The commit message's structure should match the conventional commit style."

\* f"({'|'.join(VALID_COMMIT_TYPES)})"
type_pattern ==
    Grp(1, Alt([k \in 1..Len(VALID_COMMIT_TYPES) |-> Lit(VALID_COMMIT_TYPES[k])]))

\* f"{type_pattern}(\([\w\-]+\))?:\s.*"
complete_pattern ==
    Cat(<<type_pattern,
          Opt(Grp(2, Cat(<<Ch("("), Plus(In(Word \cup {"-"})), Ch(")")>>))),
          Ch(":"), In(Whitespace), Star(Dot)>>)

\* The starts, scopes, separators and descriptions of the messages checked
CommitStarts ==
    { <<"b", "u", "i", "l", "d">>,
      <<"c", "h", "o", "r", "e">>,
      <<"c", "i">>,
      <<"d", "o", "c", "s">>,
      <<"f", "e", "a", "t">>,
      <<"f", "i", "x">>,
      <<"i", "m", "p", "r", "o", "v", "e", "m", "e", "n", "t">>,
      <<"p", "e", "r", "f">>,
      <<"r", "e", "f", "a", "c", "t", "o", "r">>,
      <<"r", "e", "v", "e", "r", "t">>,
      <<"s", "t", "y", "l", "e">>,
      <<"t", "e", "s", "t">>,
      <<"i", "m", "p", "r", "o", "v", "e", "m", "e", "n", "t", "p", "e", "r", "f">>,
      <<"f", "e", "a", "t", "u", "r", "e">>,
      <<"F", "i", "x">>,
      <<"w", "i", "p">>,
      <<" ", "f", "i", "x">>,
      <<>> }

CommitScopes == { <<>>, <<"(", "c", "o", "m", "b", "a", "t", ")">>, <<"(", "a", "-", "b", "_", "1", ")">>, <<"(", "a", " ", "b", ")">> }

CommitSeparators == { <<":", " ">>, <<":">>, <<" ">>, <<":", "\n">> }

CommitDescriptions == { <<>>, <<"x">>, <<"x", "\n", "\n", "y">> }

CommitMessages ==
    COMMIT_EXAMPLES \cup
    { start \o scope \o sep \o description :
        start \in CommitStarts, scope \in CommitScopes,
        sep \in CommitSeparators, description \in CommitDescriptions }

\* lines 36-39: the message is read from the file
CommitInit ==
    /\ commit_message \in CommitMessages
    /\ commit_pc = "type"
    /\ commit_exit_code = -1
    /\ commit_stdout = ""

CommitIdle ==
    /\ commit_message = <<>>
    /\ commit_pc = "type"
    /\ commit_exit_code = -1
    /\ commit_stdout = ""

\* lines 41-44
CheckType ==
    /\ commit_pc = "type"
    /\ IF MatchAt(type_pattern, commit_message, 1).ok
          THEN /\ commit_pc' = "structure"
               /\ UNCHANGED <<commit_exit_code, commit_stdout>>
          ELSE /\ commit_stdout' = ERROR_MESSAGE_INCORRECT_TYPE
               /\ commit_exit_code' = 1
               /\ commit_pc' = "exited"
    /\ UNCHANGED commit_message
    /\ UNCHANGED exceptCommit

\* lines 46-50
CheckStructure ==
    /\ commit_pc = "structure"
    /\ IF MatchAt(complete_pattern, commit_message, 1).ok
          THEN /\ commit_pc' = "returned"
               /\ UNCHANGED <<commit_exit_code, commit_stdout>>
          ELSE /\ commit_stdout' = ERROR_MESSAGE_INCORRECT_STRUCTURE
               /\ commit_exit_code' = 1
               /\ commit_pc' = "exited"
    /\ UNCHANGED commit_message
    /\ UNCHANGED exceptCommit

NextCommit ==
    \/ CheckType
    \/ CheckStructure

(***************************************************************************)
(* scons/prepare_for_mavenseed.py                                          *)
(***************************************************************************)
MaxPaths == 2

\* pathlib: Path.name, Path.suffix, Path.stem and Path.parent
path_name(path) == IF path = <<".">> THEN <<>> ELSE basename(path)

path_suffix(path) ==
    LET name == path_name(path)
        dots == {k \in 2..(Len(name) - 1) : name[k] = "."}
    IN  IF dots = {} THEN <<>> ELSE SubSeq(name, Max(dots), Len(name))

path_stem(path) ==
    LET name == path_name(path)
    IN  SubSeq(name, 1, Len(name) - Len(path_suffix(path)))

path_parent(path) == IF dirname(path) = <<>> THEN <<".">> ELSE dirname(path)

DotHtml == <<".", "h", "t", "m", "l">>

\* the index of the first occurrence of sub in s, counted from 0, or -1
IndexOf(s, sub) ==
    LET found == {k \in 1..(Len(s) - Len(sub) + 1) : SubSeq(s, k, k + Len(sub) - 1) = sub}
    IN  IF found = {} THEN -1 ELSE Min(found) - 1

BodyOpen == <<"<", "b", "o", "d", "y", ">">>

BodyClose == <<"<", "/", "b", "o", "d", "y", ">">>

\* html.index raises ValueError when the tag is missing
has_body(html) == IndexOf(html, BodyOpen) >= 0 /\ IndexOf(html, BodyClose) >= 0

extract_html_body(html) ==
    LET body_start == IndexOf(html, BodyOpen) + 6
        body_end == IndexOf(html, BodyClose)
    IN  SubSeq(html, body_start + 1, body_end)

\* r'href="(?!http|\/\/|#)(.+?)"'
RE_HREF ==
    Cat(<<Lit(<<"h", "r", "e", "f", "=", "\"">>),
          NotAhead(Alt(<<Lit(<<"h", "t", "t", "p">>), Lit(<<"/", "/">>), Ch("#")>>)),
          Grp(1, PlusLazy(Dot)), Ch("\"")>>)

\* r'<h1 id="([^"]+)"'
RE_H1_ID == Cat(<<Lit(<<"<", "h", "1", " ", "i", "d", "=", "\"">>), Grp(1, Plus(NotIn({"\""}))), Ch("\"")>>)

\* DIST_DIRECTORY.rglob("**/" + file_name): the files of that name below dist
find_file_by_name(file_name, files, dist) ==
    {path \in DOMAIN files :
        /\ files[path] # Missing
        /\ StartsWith(path, dist \o <<"/">>)
        /\ basename(path) = file_name}

h1_id(html, ms) == IF ms = <<>> THEN <<>> ELSE Slice(html, ms[1].g[1][1], ms[1].g[1][2])

get_document_h1_id(html_file_name, files, dist) ==
    LET matching_files == find_file_by_name(html_file_name, files, dist)
    IN  IF matching_files = {} THEN <<>>
        ELSE LET html == files[CHOOSE path \in matching_files : TRUE]
             IN  h1_id(html, FindAll(RE_H1_ID, html, 1))

Href(target) == <<"h", "r", "e", "f", "=", "\"">> \o target \o <<"\"">>

replace_link(link, files, dist) ==
    LET name == path_name(link)
        target_filename == IF EndsWith(name, DotHtml) THEN name ELSE name \o DotHtml
        title_id == get_document_h1_id(target_filename, files, dist)
    IN  IF title_id # <<>> THEN Href(title_id) ELSE Href(link)

replaced_links(html, ms, files, dist) ==
    Sub(ms, [k \in 1..Len(ms) |->
                replace_link(Slice(html, ms[k].g[1][1], ms[k].g[1][2]), files, dist)], html)

replace_links(html, files, dist) ==
    replaced_links(html, FindAll(RE_HREF, html, 1), files, dist)

RECURSIVE find_dist_directory(_, _)
find_dist_directory(path, iterations) ==
    IF iterations = 0 THEN <<>>
    ELSE IF path_stem(path) = <<"d", "i", "s", "t">> THEN path
    ELSE find_dist_directory(path_parent(path), iterations - 1)

\* the files of the command line, with their texts
MavenSources ==
    [path \in { <<"d", "i", "s", "t", "/", "a", ".", "h", "t", "m", "l">>,
                <<"d", "i", "s", "t", "/", "b", ".", "h", "t", "m", "l">>,
                <<"d", "i", "s", "t", "/", "n", ".", "h", "t", "m", "l">>,
                <<"d", "i", "s", "t", "/", "c", ".", "m", "d">>,
                <<"a", ".", "h", "t", "m", "l">> } |->
        IF path = <<"d", "i", "s", "t", "/", "a", ".", "h", "t", "m", "l">>
          THEN <<"<", "b", "o", "d", "y", ">", "<", "h", "1", " ", "i", "d", "=", "\"", "t", "\"", ">", "x", "<", "/", "h", "1", ">", "<", "/", "b", "o", "d", "y", ">">>
        ELSE IF path = <<"d", "i", "s", "t", "/", "b", ".", "h", "t", "m", "l">>
          THEN <<"<", "p", ">", "<", "b", "o", "d", "y", ">", "<", "a", " ", "h", "r", "e", "f", "=", "\"", "d", "/", "a", "\"", ">", "x", "<", "/", "a", ">", "<", "a", " ", "h", "r", "e", "f", "=", "\"", "#", "x", "\"", ">", "y", "<", "/", "a", ">", "<", "/", "b", "o", "d", "y", ">">>
        ELSE IF path = <<"d", "i", "s", "t", "/", "n", ".", "h", "t", "m", "l">>
          THEN <<"<", "h", "1", " ", "i", "d", "=", "\"", "n", "\"", ">", "x", "<", "/", "h", "1", ">">>
        ELSE <<"<", "b", "o", "d", "y", ">", "z", "<", "/", "b", "o", "d", "y", ">">>]

output_directory == <<"o", "u", "t">>

out_path_of(path) == path_join(output_directory, path_stem(path) \o DotHtml)

MavenOutputs ==
    {out_path_of(path) : path \in {p \in DOMAIN MavenSources : path_suffix(p) = DotHtml}}

MavenPaths == DOMAIN MavenSources \cup MavenOutputs

Answers == {"A", "y", "Y", "N", "a", ""}

\* The state in which main starts: the files of the command line exist, and
\* any of the output files may be there from a former run.
MavenInit ==
    /\ maven_args \in [filepaths : ListsUpTo(DOMAIN MavenSources, MaxPaths),
                        overwrite : BOOLEAN, print_files : BOOLEAN]
    /\ \E present \in SUBSET MavenOutputs :
          maven_disk = [path \in MavenPaths |->
                          IF path \in DOMAIN MavenSources THEN MavenSources[path]
                          ELSE IF path \in present THEN <<"o", "l", "d">> ELSE Missing]
    /\ output_exists \in BOOLEAN
    /\ (\E path \in MavenOutputs : maven_disk[path] # Missing) => output_exists
    /\ valid_filepaths = <<>>
    /\ DIST_DIRECTORY = <<>>
    /\ overwrite_all = FALSE
    /\ maven_next = 1
    /\ maven_pc = "start"
    /\ maven_exit_code = -1
    /\ maven_log = <<>>

MavenIdle ==
    /\ maven_args = [filepaths |-> <<>>, overwrite |-> FALSE, print_files |-> FALSE]
    /\ maven_disk = <<>>
    /\ output_exists = FALSE
    /\ valid_filepaths = <<>>
    /\ DIST_DIRECTORY = <<>>
    /\ overwrite_all = FALSE
    /\ maven_next = 1
    /\ maven_pc = "start"
    /\ maven_exit_code = -1
    /\ maven_log = <<>>

html_filepaths(listed) == SelectSeq(listed, LAMBDA path : path_suffix(path) = DotHtml)

\* lines 85-100: the list of files, the output directory and DIST_DIRECTORY
MavenStarts(valid) ==
    IF valid = <<>>
      THEN [pc |-> "IndexError", exit_code |-> -1, dist |-> <<>>]
    ELSE IF find_dist_directory(valid[1], 10) = <<>>
      THEN [pc |-> "exited", exit_code |-> 1, dist |-> <<>>]
    ELSE [pc |-> "loop", exit_code |-> -1, dist |-> find_dist_directory(valid[1], 10)]

MavenStart ==
    /\ maven_pc = "start"
    /\ valid_filepaths' = html_filepaths(maven_args.filepaths)
    /\ output_exists' = TRUE
    /\ LET started == MavenStarts(html_filepaths(maven_args.filepaths))
       IN  /\ maven_pc' = started.pc
           /\ maven_exit_code' = started.exit_code
           /\ DIST_DIRECTORY' = started.dist
    /\ overwrite_all' = maven_args.overwrite
    /\ UNCHANGED <<maven_args, maven_disk, maven_next, maven_log>>
    /\ UNCHANGED exceptMaven

\* lines 108: whether the iteration for path asks the question
asks(path) == ~overwrite_all /\ maven_disk[out_path_of(path)] # Missing

\* lines 102-122: one iteration of the loop, answer being what input returns
\* when the question is asked
Iteration(path, answer) ==
    LET prompted == asks(path)
        overwrite_this_file == StrLower(<<answer>>) = <<"y">>
    IN  [out_path |-> out_path_of(path),
         existed |-> maven_disk[out_path_of(path)] # Missing,
         prompted |-> prompted,
         answer |-> answer,
         overwrite_all |-> IF prompted THEN answer = "A" ELSE overwrite_all,
         wrote |-> ~prompted \/ overwrite_this_file]

ProcessFile(answer) ==
    /\ maven_pc = "loop"
    /\ maven_next <= Len(valid_filepaths)
    /\ answer \in (IF asks(valid_filepaths[maven_next]) THEN Answers ELSE {"none"})
    /\ IF ~has_body(maven_disk[valid_filepaths[maven_next]])
          THEN /\ maven_pc' = "ValueError"
               /\ UNCHANGED <<maven_disk, overwrite_all, maven_next, maven_log>>
          ELSE LET done == Iteration(valid_filepaths[maven_next], answer)
               IN  /\ overwrite_all' = done.overwrite_all
                   /\ maven_disk' =
                         IF done.wrote
                           THEN [maven_disk EXCEPT ![done.out_path] =
                                   replace_links(
                                     extract_html_body(maven_disk[valid_filepaths[maven_next]]),
                                     maven_disk, DIST_DIRECTORY)]
                           ELSE maven_disk
                   /\ maven_log' = Append(maven_log, done)
                   /\ maven_next' = maven_next + 1
                   /\ maven_pc' = "loop"
    /\ UNCHANGED <<maven_args, output_exists, valid_filepaths, DIST_DIRECTORY, maven_exit_code>>
    /\ UNCHANGED exceptMaven

\* lines 124-125, and the end of main
MavenReturn ==
    /\ maven_pc = "loop"
    /\ maven_next > Len(valid_filepaths)
    /\ maven_pc' = "returned"
    /\ UNCHANGED <<maven_args, maven_disk, output_exists, valid_filepaths, DIST_DIRECTORY,
                   overwrite_all, maven_next, maven_exit_code, maven_log>>
    /\ UNCHANGED exceptMaven

NextMaven ==
    \/ MavenStart
    \/ \E answer \in Answers \cup {"none"} : ProcessFile(answer)
    \/ MavenReturn

(***************************************************************************)
(* scripts/godot_3_to_4_rename_files.py: to_snake_case                     *)
(***************************************************************************)
MaxName == 4

\* r"(\w)(\d+[a-zA-Z])"
RE_STEP_1 == Cat(<<Grp(1, In(Word)), Grp(2, Cat(<<Plus(In(Digit)), In(Alpha)>>))>>)

\* r"(.)(?<!_)([A-Z][a-z]+)"
RE_STEP_2 ==
    Cat(<<Grp(1, Dot), NotBehind(Ch("_"), 1), Grp(2, Cat(<<In(Upper), Plus(In(Lower))>>))>>)

\* r"([a-z])(?<!_)([A-Z])"
RE_STEP_3 == Cat(<<Grp(1, In(Lower)), NotBehind(Ch("_"), 1), Grp(2, In(Upper))>>)

\* the replacement r"\1_\2" for each of the matches ms in s
underscored(ms, s) ==
    Sub(ms, [k \in 1..Len(ms) |->
                Slice(s, ms[k].g[1][1], ms[k].g[1][2]) \o <<"_">> \o
                Slice(s, ms[k].g[2][1], ms[k].g[2][2])], s)

\* re.sub(pattern, r"\1_\2", s)
sub_underscore(pattern, s) == underscored(FindAll(pattern, s, 1), s)

\* lines 65-68: one part of the name
convert_part(part) ==
    StrLower(sub_underscore(RE_STEP_3, sub_underscore(RE_STEP_2, sub_underscore(RE_STEP_1, part))))

converted_parts(parts) == [k \in 1..Len(parts) |-> convert_part(parts[k])]

to_snake_case(name) == JoinWith(converted_parts(SplitOn(name, "/")), <<"/">>)

\* the characters of the names typed
NameChars == {"a", "B", "2", "_", "/"}

\* the names of run_tests
TestedNames ==
    { <<"H", "e", "l", "l", "o", "_", "W", "o", "r", "l", "d">>,
      <<"H", "e", "l", "l", "o", "W", "o", "r", "l", "d">>,
      <<"L", "o", "o", "p", "i", "n", "g", "A", "u", "d", "i", "o", "S", "t", "r", "e", "a", "m", "P", "l", "a", "y", "e", "r", "2", "D", ".", "g", "d">> }

RenameInit ==
    /\ old_name \in {<<>>} \cup TestedNames
    /\ new_name = <<>>
    /\ newer_name = <<>>
    /\ rename_pc = "name"

RenameIdle ==
    /\ old_name = <<>>
    /\ new_name = <<>>
    /\ newer_name = <<>>
    /\ rename_pc = "name"

\* one more character of the name of a file or of a path
TypeName(c) ==
    /\ rename_pc = "name"
    /\ old_name \notin TestedNames
    /\ Len(old_name) < MaxName
    /\ old_name' = Append(old_name, c)
    /\ UNCHANGED <<new_name, newer_name, rename_pc>>
    /\ UNCHANGED exceptRename

\* to_snake_case(name)
Rename ==
    /\ rename_pc = "name"
    /\ new_name' = to_snake_case(old_name)
    /\ rename_pc' = "renamed"
    /\ UNCHANGED <<old_name, newer_name>>
    /\ UNCHANGED exceptRename

\* to_snake_case of the name that to_snake_case returned, as when the script
\* is run again on the project it has renamed
RenameAgain ==
    /\ rename_pc = "renamed"
    /\ newer_name' = to_snake_case(new_name)
    /\ rename_pc' = "renamed again"
    /\ UNCHANGED <<old_name, new_name>>
    /\ UNCHANGED exceptRename

NextRename ==
    \/ \E c \in NameChars : TypeName(c)
    \/ Rename
    \/ RenameAgain

(***************************************************************************)
(* The specifications: each of them runs the machine of one program and    *)
(* leaves the variables of the other ones as they are.                     *)
(***************************************************************************)
(***************************************************************************)
(* highlight_code.py: the code blocks of a markdown document are given to  *)
(* the program chroma.                                                     *)
(***************************************************************************)
\* the number of pieces of a markdown document
MaxPieces == 3

\* the pieces of a document: a line of text, an empty line, a code block with
\* a language tag and one without
MarkdownPieces ==
    { <<"x", "\n">>,
      <<"\n">>,
      Fence \o <<"g", "d", "\n", "y", "\n">> \o Fence,
      Fence \o <<"\n", "z", "\n">> \o Fence }

\* the pattern of highlight_code_blocks' re.sub, under re.S
RE_HIGHLIGHT ==
    Cat(<<Lit(Fence), Grp(1, Star(In(Lower))), Ch("\n"),
          Grp(2, StarLazy(DotAll)), Lit(Fence)>>)

\* the lexer given to chroma for the language tag of a block
lexer(language) == IF language = <<>> THEN gdscript ELSE language

\* what chroma writes on its standard output when it succeeds: the code
\* between tags that tell the lexer
chroma_stdout(language, code) ==
    <<"<">> \o language \o <<">">> \o code \o <<"<", "/", ">">>

\* highlight_with_chroma(match) for the match m of the text string, chroma
\* ending with the code returncode
highlight_with_chroma(string, m, returncode) ==
    IF returncode = 0
    THEN chroma_stdout(lexer(Slice(string, m.g[1][1], m.g[1][2])),
                       Slice(string, m.g[2][1], m.g[2][2]))
    ELSE string

highlight_sub(ms, codes, string) ==
    Sub(ms, [k \in 1..Len(ms) |-> highlight_with_chroma(string, ms[k], codes[k])], string)

HighlightInit ==
    /\ md_file = <<>>
    /\ md_typed = 0
    /\ returncodes = <<>>
    /\ highlighted = <<>>
    /\ highlight_pc = "edit"

HighlightIdle == HighlightInit

\* one more piece is written at the end of the markdown document
WriteMarkdown(piece) ==
    /\ highlight_pc = "edit"
    /\ md_typed < MaxPieces
    /\ md_file' = md_file \o piece
    /\ md_typed' = md_typed + 1
    /\ UNCHANGED <<returncodes, highlighted, highlight_pc>>
    /\ UNCHANGED exceptHighlight

\* highlight_code_blocks(file_path): chroma ends with the code 0 or with the
\* code 1 on each block
HighlightCodeBlocks ==
    /\ highlight_pc = "edit"
    /\ \E codes \in [1..Len(FindAll(RE_HIGHLIGHT, md_file, 1)) -> {0, 1}] :
            /\ returncodes' = codes
            /\ highlighted' = highlight_sub(FindAll(RE_HIGHLIGHT, md_file, 1), codes, md_file)
    /\ highlight_pc' = "returned"
    /\ UNCHANGED <<md_file, md_typed>>
    /\ UNCHANGED exceptHighlight

NextHighlight ==
    \/ \E piece \in MarkdownPieces : WriteMarkdown(piece)
    \/ HighlightCodeBlocks

(***************************************************************************)
(* table_of_contents.py                                                    *)
(***************************************************************************)
\* the number of lines of the file
MaxTocLines == 3

ERROR_COULD_NOT_OPEN_INPUT_FILE == 1

TEMPLATE_CONTENTS ==
    <<"{", "%", " ", "c", "o", "n", "t", "e", "n", "t", "s", " ", "%", "}">>

\* the lines of the file: the title of the document, headings of level 2 and
\* 3, the template, a line of text, and a line with the template after a space
TocLines ==
    { <<"#", " ", "T", "\n">>,
      <<"#", "#", " ", "A", " ", "b", "\n">>,
      <<"#", "#", "#", " ", "C", "\n">>,
      TEMPLATE_CONTENTS \o <<"\n">>,
      <<" ">> \o TEMPLATE_CONTENTS \o <<"\n">>,
      <<"x", "\n">> }

RE_HEADING == Cat(<<Bol(TRUE), Grp(1, Plus(Ch("#"))), Grp(2, Plus(Dot)), Eol(TRUE)>>)

RE_TEMPLATE_CONTENTS == Cat(<<Bol(TRUE), Lit(TEMPLATE_CONTENTS), Eol(TRUE)>>)

\* str.count("#")
count_hashes(s) == Cardinality({k \in 1..Len(s) : s[k] = "#"})

\* the Heading that find_headings makes of a line
Heading(line) ==
    LET title == RStrip(LStrip(line, {"#", " "}), {"\n"})
    IN  [title |-> title,
         anchor |-> [k \in 1..Len(title) |-> IF title[k] = " " THEN "-" ELSE LowerChar(title[k])],
         level |-> count_hashes(SplitOn(line, " ")[1]) - 2]

is_listed_heading(line) ==
    /\ Len(FindAll(RE_HEADING, line, 1)) > 0
    /\ ~StartsWith(line, <<"#", " ">>)

headings_of(heading_lines) == [k \in 1..Len(heading_lines) |-> Heading(heading_lines[k])]

find_headings(text) == headings_of(SelectSeq(text, is_listed_heading))

max_level == 3

toc_line(heading) ==
    [k \in 1..(IF heading.level > 0 THEN 2 * heading.level ELSE 0) |-> " "]
    \o <<"-", " ", "[">> \o heading.title \o <<"]", "(", "#">> \o heading.anchor
    \o <<")", "\n">>

toc_lines(headings) == [k \in 1..Len(headings) |-> toc_line(headings[k])]

has_listed_level(heading) == heading.level <= max_level

generate_table_of_contents(headings) ==
    << <<"C", "o", "n", "t", "e", "n", "t", "s", ":", "\n">>, <<"\n">> >>
    \o toc_lines(SelectSeq(headings, has_listed_level))

\* the indexes of the lines that RE_TEMPLATE_CONTENTS.match accepts
template_lines(lines) ==
    {k \in 1..Len(lines) : MatchAt(RE_TEMPLATE_CONTENTS, lines[k], 1).ok}

\* the list output at the end of the loop of main
toc_output(lines) ==
    IF template_lines(lines) = {} THEN <<>>
    ELSE SubSeq(lines, 1, Min(template_lines(lines)) - 1)
         \o generate_table_of_contents(find_headings(lines))
         \o SubSeq(lines, Min(template_lines(lines)) + 1, Len(lines))

TocInit ==
    /\ toc_content = <<>>
    /\ toc_stdout = <<>>
    /\ toc_exit_code = -1
    /\ toc_pc = "edit"

TocIdle == TocInit

\* one more line is written at the end of the file
WriteLine(line) ==
    /\ toc_pc = "edit"
    /\ Len(toc_content) < MaxTocLines
    /\ toc_content' = Append(toc_content, line)
    /\ UNCHANGED <<toc_stdout, toc_exit_code, toc_pc>>
    /\ UNCHANGED exceptToc

\* main, on a file without line
TocExit ==
    /\ toc_pc = "edit"
    /\ toc_content = <<>>
    /\ toc_pc' = "exited"
    /\ toc_exit_code' = ERROR_COULD_NOT_OPEN_INPUT_FILE
    /\ UNCHANGED <<toc_content, toc_stdout>>
    /\ UNCHANGED exceptToc

\* main, on a file with lines: print writes the lines of output and an end of
\* line
TocMain ==
    /\ toc_pc = "edit"
    /\ toc_content # <<>>
    /\ toc_pc' = "returned"
    /\ toc_stdout' = Join(toc_output(toc_content)) \o <<"\n">>
    /\ UNCHANGED <<toc_content, toc_exit_code>>
    /\ UNCHANGED exceptToc

NextToc ==
    \/ \E line \in TocLines : WriteLine(line)
    \/ TocExit
    \/ TocMain

ToolsIdle ==
    IncludeIdle /\ CommitIdle /\ MavenIdle /\ RenameIdle /\ HighlightIdle /\ TocIdle

MainIdle ==
    /\ args = [files |-> <<>>, output |-> <<>>, in_place |-> FALSE]
    /\ version_info = [major |-> 3, minor |-> 8]
    /\ disk = [p \in AllPaths |-> Missing]
    /\ disk0 = disk
    /\ directories = {}
    /\ pc = "version"
    /\ exit_code = -1
    /\ exception = "none"
    /\ next = 1
    /\ documents = <<>>
    /\ stdout = <<>>
    /\ stderr = 0
    /\ writes = <<>>

Init == MainInit /\ FormatInit /\ ToolsIdle

Next ==
    \/ CheckVersion
    \/ CheckPaths
    \/ ReadAndProcess
    \/ OutputResult

Spec == Init /\ [][Next]_vars

InitFormat == FormatInit /\ MainIdle /\ ToolsIdle

NextFormat ==
    \/ \E token \in Tokens : Type(token)
    \/ Process
    \/ Reprocess

SpecFormat == InitFormat /\ [][NextFormat]_vars

NextCode ==
    \/ \E language \in Languages : OpenFence(language)
    \/ \E line \in CodeLines : TypeCode(line)
    \/ ProcessCodeBlock

SpecCode == InitFormat /\ [][NextCode]_vars

NextProse ==
    \/ \E word \in Words : TypeWord(word)
    \/ Process

SpecProse == InitFormat /\ [][NextProse]_vars

NextSegments ==
    \/ \E segment \in Segments : Type(segment)
    \/ Process

SpecSegments == InitFormat /\ [][NextSegments]_vars

NextRules ==
    \/ \E word \in RuleWords : TypeWord(word)
    \/ Process

SpecRules == InitFormat /\ [][NextRules]_vars

NextHeadings ==
    \/ \E token \in HeadingTokens : Type(token)
    \/ Process

SpecHeadings == InitFormat /\ [][NextHeadings]_vars

NextComment ==
    \/ \E indent \in CommentIndents, markers \in CommentMarkers, space \in CommentSpaces :
            OpenComment(indent, markers, space)
    \/ \E word \in CommentWords : TypeComment(word)
    \/ ProcessComment

SpecComment == InitFormat /\ [][NextComment]_vars

InitHighlight ==
    /\ HighlightInit /\ FormatInit /\ MainIdle
    /\ IncludeIdle /\ CommitIdle /\ MavenIdle /\ RenameIdle /\ TocIdle

SpecHighlight == InitHighlight /\ [][NextHighlight]_vars

InitToc ==
    /\ TocInit /\ FormatInit /\ MainIdle
    /\ IncludeIdle /\ CommitIdle /\ MavenIdle /\ RenameIdle /\ HighlightIdle

SpecToc == InitToc /\ [][NextToc]_vars

InitInclude ==
    /\ IncludeInit /\ FormatInit /\ MainIdle
    /\ CommitIdle /\ MavenIdle /\ RenameIdle /\ HighlightIdle /\ TocIdle

SpecInclude == InitInclude /\ [][NextInclude]_vars

InitCommit ==
    /\ CommitInit /\ FormatInit /\ MainIdle
    /\ IncludeIdle /\ MavenIdle /\ RenameIdle /\ HighlightIdle /\ TocIdle

SpecCommit == InitCommit /\ [][NextCommit]_vars

InitMaven ==
    /\ MavenInit /\ FormatInit /\ MainIdle
    /\ IncludeIdle /\ CommitIdle /\ RenameIdle /\ HighlightIdle /\ TocIdle

SpecMaven == InitMaven /\ [][NextMaven]_vars

InitRename ==
    /\ RenameInit /\ FormatInit /\ MainIdle
    /\ IncludeIdle /\ CommitIdle /\ MavenIdle /\ HighlightIdle /\ TocIdle

SpecRename == InitRename /\ [][NextRename]_vars

(***************************************************************************)
(* Properties of the formatter (specification SpecFormat)                  *)
(***************************************************************************)
\* the marks that the prose rules insert
Marks == { <<BackTick>>, <<"*">>, KbdOpen, KbdClose }

\* the positions of o that are reached from the positions of S by going over
\* marks (a position is the number of characters of o already read)
RECURSIVE SkipMarks(_, _)
SkipMarks(o, S) ==
    LET more == S \cup {p \in 1..Len(o) :
                    \E j \in S, m \in Marks : p = j + Len(m) /\ SubSeq(o, j + 1, p) = m}
    IN  IF more = S THEN S ELSE SkipMarks(o, more)

\* S is the set of positions of o at which the first i characters of t can
\* end when o is t with marks inserted
RECURSIVE InsertedFrom(_, _, _, _)
InsertedFrom(t, o, i, S) ==
    IF i = Len(t) THEN Len(o) \in S
    ELSE InsertedFrom(t, o, i + 1,
            SkipMarks(o, {j + 1 : j \in {h \in S : h < Len(o) /\ o[h + 1] = t[i + 1]}}))

\* o is t with marks inserted: deleting some marks of o gives t
Inserted(t, o) == InsertedFrom(t, o, 0, SkipMarks(o, {0}))

Front(s) == SubSeq(s, 1, Len(s) - 1)

\* P is pre with marks inserted, none of them at the end of P
InsertedNoTrail(pre, P) ==
    IF Len(pre) = 0 THEN Len(P) = 0
    ELSE Len(P) > 0 /\ pre[Len(pre)] = P[Len(P)] /\ Inserted(Front(pre), Front(P))

\* Q is post with marks inserted, none of them at the start of Q
InsertedNoLead(post, Q) ==
    IF Len(post) = 0 THEN Len(Q) = 0
    ELSE Len(Q) > 0 /\ post[1] = Q[1] /\ Inserted(Tail(post), Tail(Q))

\* the spans of line that a pair of marks delimits: the first and the second
\* occurrence of the mark, the third and the fourth one, and so on
MarkSpans(line, mark) ==
    LET pos == {k \in 1..Len(line) : line[k] = mark}
        rank(p) == Cardinality({q \in pos : q <= p})
    IN  {<<b, e>> \in pos \X pos : rank(b) % 2 = 1 /\ rank(e) = rank(b) + 1}

\* the span from b to e of line is in out as it is, and no mark is inserted
\* against it: what comes before it is the text before the span with marks
\* inserted, the last of them not at the end, and likewise after it
Kept(line, out, b, e) ==
    \E k \in 1..(Len(out) - (e - b)) :
        /\ SubSeq(out, k, k + (e - b)) = SubSeq(line, b, e)
        /\ InsertedNoTrail(SubSeq(line, 1, b - 1), SubSeq(out, 1, k - 1))
        /\ InsertedNoLead(SubSeq(line, e + 1, Len(line)), SubSeq(out, k + (e - b) + 1, Len(out)))

HasDoubleBackTick(s) == \E k \in 1..(Len(s) - 1) : s[k] = BackTick /\ s[k + 1] = BackTick

\* s is exactly one match of the pattern re
FullMatch(re, s) == MatchAt(Cat(<<re, EndOfString>>), s, 1).ok

\* the chunks of the processed document that went through format_content
FormattedChunks ==
    {c \in UNION {Range(processed.blocks[j].chunks) : j \in 1..Len(processed.blocks)} :
        ~c.ignored}

\* C1: process_content is idempotent: applied to its own result, it returns
\* normally and returns that result unchanged.
C1_Idempotence ==
    stage = "reprocessed" => ~reprocessed.raised /\ reprocessed.out = processed.out

\* C2: segmentation is lossless: the sections of process_content, joined in
\* order, are the input document.
C2_LosslessSegmentation ==
    stage # "edit" => Join(processed.sections) = content

\* C3: non-interference: a section that is a template tag is copied as it is,
\* a section that is a fenced code block goes to format_code_block only, and
\* no text that goes through format_content holds a template tag or a fenced
\* code block.
C3_NonInterference ==
    stage # "edit" =>
        /\ \A j \in 1..Len(processed.sections) :
            /\ FullMatch(RE_SPLIT_TEMPLATE, processed.sections[j]) =>
                    /\ processed.blocks[j].kind = "unformatted"
                    /\ processed.blocks[j].out = processed.sections[j]
            /\ FullMatch(RE_SPLIT_CODE_BLOCK, processed.sections[j]) =>
                    /\ processed.blocks[j].kind = "code"
                    /\ processed.blocks[j].chunks = <<>>
        /\ \A c \in FormattedChunks :
            /\ FindAll(RE_SPLIT_TEMPLATE, c.text, 1) = <<>>
            /\ FindAll(RE_SPLIT_CODE_BLOCK, c.text, 1) = <<>>

\* a document with a template tag that format_content would change is processed
C3_Witness ==
    /\ stage = "processed"
    /\ \E j \in 1..Len(processed.sections) :
        /\ FullMatch(RE_SPLIT_TEMPLATE, processed.sections[j])
        /\ format_content(processed.sections[j]) # processed.sections[j]

\* C4: no double wrapping: the output of a prose block has two adjacent
\* backticks only when the block had two adjacent backticks in the input.
C4_NoDoubleBackTick ==
    stage # "edit" =>
        \A j \in 1..Len(processed.sections) :
            (/\ processed.blocks[j].kind = "prose"
             /\ ~HasDoubleBackTick(processed.sections[j]))
                => ~HasDoubleBackTick(processed.blocks[j].out)

\* C5: process_content does not raise on a document with one code fence, an
\* opening fence that is never closed, and handles no part of it as a code
\* block.
C5_UnterminatedFence ==
    (stage # "edit" /\ Len(FindAll(Lit(Fence), content, 1)) = 1) =>
        /\ ~processed.raised
        /\ \A j \in 1..Len(processed.blocks) : processed.blocks[j].kind # "code"

\* C6: existing marks are not wrapped again: each span of a prose line that a
\* pair of backticks or a pair of asterisks delimits is in the output of
\* format_line as it is, with no mark inserted in it or against it.
C6_MarkedSpansKept ==
    stage # "edit" =>
        \A c \in FormattedChunks :
            (\A k \in 1..Len(c.text) : c.text[k] # "\n") =>
                \A mark \in {BackTick, "*"} :
                    \A span \in MarkSpans(c.text, mark) :
                        Kept(c.text, c.out, span[1], span[2])

\* C7: the prose rules only insert marks: what format_content returns is its
\* argument with backticks, asterisks and kbd tags inserted.
C7_OnlyInsertsMarks ==
    stage # "edit" => \A c \in FormattedChunks : Inserted(c.text, c.out)

\* format_content has inserted keyboard tags in a text
C7_Witness ==
    /\ stage = "processed"
    /\ \E c \in FormattedChunks :
        /\ Len(FindAll(Lit(KbdOpen), c.out, 1)) > Len(FindAll(Lit(KbdOpen), c.text, 1))
        /\ Inserted(c.text, c.out)

(***************************************************************************)
(* Properties of main (specification Spec)                                 *)
(***************************************************************************)
\* the path names a markdown file that exists when main starts
IsMarkdownFile(f) == EndsWith(StrLower(f), DotMd) /\ disk0[f] # Missing

\* the path names a markdown file that can be read when main starts
IsReadable(f) == IsMarkdownFile(f) /\ disk0[f] # Directory

\* the document number d has been output
IsOutput(d) == \E k \in 1..Len(writes) : writes[k].document = d

\* something has been written on the disk or on the standard output
Written == writes # <<>> \/ stdout # <<>> \/ disk # disk0

C9_NoPartialWrite ==
    /\ Written => Len(documents) = Len(args.files)
    /\ \A k \in 1..Len(writes) : writes[k].document \in 1..Len(documents)
    /\ (pc = "raised" /\ exception = "process_content") => ~Written

\* process_content has raised for the second document of an in-place run
C9_Witness ==
    /\ pc = "raised"
    /\ exception = "process_content"
    /\ args.in_place
    /\ Len(documents) >= 1

\* C10: output routing: each document is output to its source path with
\* --in-place, else to the standard output without --output, else to the
\* file of its name in the output directory, which exists then; and without
\* --in-place no source file is written.
C10_OutputRouting ==
    /\ \A k \in 1..Len(writes) :
        IF args.in_place
        THEN /\ writes[k].to = "file"
             /\ writes[k].path = documents[writes[k].document].file_path
        ELSE IF args.output = <<>>
        THEN writes[k].to = "stdout"
        ELSE /\ writes[k].to = "file"
             /\ writes[k].path =
                    path_join(args.output, basename(documents[writes[k].document].file_path))
             /\ args.output \in directories
    /\ ~args.in_place => \A k \in 1..Len(args.files) : disk[args.files[k]] = disk0[args.files[k]]

\* the Python that runs the program is older than 3.8
OlderThanMinimum ==
    version_info.major < 3 \/ (version_info.major = 3 /\ version_info.minor < 8)

DeclaredLanguage(section) == SplitOn(SubSeq(section, Len(Fence) + 1, Len(section)), "\n")[1]

\* the lines of a code block between its first line and its closing fence
CodeOf(section) ==
    SubSeq(section, Len(Fence) + Len(DeclaredLanguage(section)) + 2, Len(section) - Len(Fence))

\* the code blocks of the processed document
CodeBlocks == {j \in 1..Len(processed.blocks) : processed.blocks[j].kind = "code"}

\* C12: format_code_block returns every fenced code block with its opening
\* fence, its language tag and its closing fence: the tag that the block
\* declares, or gdscript when it declares none.
C12_FenceAndLanguage ==
    stage = "processed" =>
        \A j \in CodeBlocks :
            /\ ~processed.blocks[j].raised
            /\ StartsWith(processed.blocks[j].out,
                    Fence \o (IF DeclaredLanguage(processed.sections[j]) = <<>> THEN gdscript
                              ELSE DeclaredLanguage(processed.sections[j])) \o <<"\n">>)
            /\ EndsWith(processed.blocks[j].out, Fence)

\* the whitespace that a line starts with
Indentation(line) == SubSeq(line, 1, Len(line) - Len(LStrip(line, {" ", "\t"})))

\* the line with the runs of TAB_WIDTH spaces of its indentation replaced by
\* tabs, and what follows the indentation as it is
TabsInIndentation(line) ==
    convert_spaces_to_tabs(Indentation(line)) \o LStrip(line, {" ", "\t"})

TabsInIndentations(lines) == [k \in 1..Len(lines) |-> TabsInIndentation(lines[k])]

\* C13: the conversion to tabs touches the indentation only: for the code of
\* a block, convert_spaces_to_tabs replaces the runs of TAB_WIDTH spaces at
\* the start of each line and leaves every space after the first character
\* of the line that is not whitespace as it is.
C13_TabsInIndentationOnly ==
    stage = "processed" =>
        \A j \in CodeBlocks :
            convert_spaces_to_tabs(CodeOf(processed.sections[j]))
                = JoinWith(TabsInIndentations(SplitOn(CodeOf(processed.sections[j]), "\n")), <<"\n">>)

\* the first character of the line that is not whitespace is a number sign
IsFullLineComment(line) == StartsWith(LStrip(line, {" ", "\t"}), <<"#">>)

\* the lines with the comment-filling pass applied to the full-line comments
\* only
FullLineCommentsFilled(lines) ==
    [k \in 1..Len(lines) |->
        IF IsFullLineComment(lines[k])
        THEN fill_comments(FindAll(RE_COMMENT, lines[k], 1), lines[k])
        ELSE lines[k]]

\* the code of a block when the comment-filling pass gets it
TabbedCodeOf(section) == convert_spaces_to_tabs(CodeOf(section))

\* C14: the comment-filling pass changes full-line comments only: every line
\* of a code block whose first character that is not whitespace is not a
\* number sign comes out of it unchanged.
C14_OnlyFullLineComments ==
    stage = "processed" =>
        \A j \in CodeBlocks :
            ~fill_comment_raises(TabbedCodeOf(processed.sections[j])) =>
                fill_comments(FindAll(RE_COMMENT, TabbedCodeOf(processed.sections[j]), 1),
                              TabbedCodeOf(processed.sections[j]))
                    = JoinWith(FullLineCommentsFilled(
                            SplitOn(TabbedCodeOf(processed.sections[j]), "\n")), <<"\n">>)

(***************************************************************************)
(* Properties of the prose rules (specification SpecProse)                 *)
(***************************************************************************)
\* a word of two characters or more, all of its letters in capitals
IsAllCaps(word) ==
    /\ Len(word) >= 2
    /\ StrUpper(word) = word
    /\ \E k \in 1..Len(word) : word[k] \in Upper

\* the text holds a word or a phrase of WORDS_TO_KEEP_UNFORMATTED, in any
\* case, or a word in capitals
HoldsExemptWord(text) ==
    \/ \E kept \in WORDS_TO_KEEP_UNFORMATTED :
            FindAll(Cat(<<WordBoundary, Lit(kept), WordBoundary>>), StrLower(text), 1) # <<>>
    \/ \E k \in 1..Len(SplitOn(text, " ")) : IsAllCaps(SplitOn(text, " ")[k])

\* C15: the list WORDS_TO_KEEP_UNFORMATTED and the words in capitals are
\* exempt from italics: in the output of a line of prose that had no
\* asterisk, no span between two asterisks holds a word or a phrase of the
\* list or a word in capitals, alone or in a sequence of capitalized words.
C15_ExemptFromItalics ==
    stage # "edit" =>
        \A c \in FormattedChunks :
            (\A k \in 1..Len(c.text) : c.text[k] \notin {"*", "\n"}) =>
                \A span \in MarkSpans(c.out, "*") :
                    ~HoldsExemptWord(SubSeq(c.out, span[1] + 1, span[2] - 1))

\* a modifier of a keyboard shortcut
ModifierName ==
    Alt(<<Lit(<<"C", "t", "r", "l">>), Lit(<<"A", "l", "t">>), Lit(<<"S", "h", "i", "f", "t">>)>>)

\* a key of a keyboard shortcut: F1 to F12, a capital letter or a digit
KeyName == Alt(<<Cat(<<Ch("F"), Rep(In(Digit), 1, 2, FALSE)>>), In(Upper \cup Digit)>>)

\* a chord: modifiers joined by a plus sign, with a space or none around it,
\* to a key
Chord ==
    Cat(<<WordBoundary,
          Plus(Cat(<<ModifierName, Opt(Ch(" ")), Ch("+"), Opt(Ch(" "))>>)),
          KeyName, WordBoundary>>)

\* the chord with each of its elements in a kbd tag
TaggedElements(ms, chord) == Sub(ms, [k \in 1..Len(ms) |-> Kbd(Group0(chord, ms[k]))], chord)

Tagged(chord) == TaggedElements(FindAll(Alt(<<ModifierName, KeyName>>), chord, 1), chord)

\* the chords of the text
Chords(text, ms) == {Group0(text, ms[k]) : k \in 1..Len(ms)}

\* C16: keyboard shortcuts: each chord of a line of prose is in the output
\* with each of its elements in a kbd tag and nothing else of it changed,
\* for any number of modifiers and wherever it stands on the line.
C16_ChordsTagged ==
    stage # "edit" =>
        \A c \in FormattedChunks :
            \A chord \in Chords(c.text, FindAll(Chord, c.text, 1)) :
                FindAll(Lit(Tagged(chord)), c.out, 1) # <<>>

(***************************************************************************)
(* Properties of scons/include.py (specification SpecInclude)              *)
(***************************************************************************)
\* the include templates in the forms of the documentation: the name or the
\* path of a file, and an anchor or none
IncludeForms ==
    { [line |-> <<"{", "%", " ", "i", "n", "c", "l", "u", "d", "e", " ">> \o path \o (IF anchor = <<>> THEN <<>> ELSE <<" ">> \o anchor) \o <<" ", "%", "}">>,
       path |-> path, anchor |-> anchor] :
        path \in {<<"F", ".", "g", "d">>, <<"G", ".", "g", "d">>} \cup DOMAIN ProjectDisk, anchor \in {<<>>, <<"a">>, <<"a", "b">>, <<"z">>} }

FormOf(line) == CHOOSE form \in IncludeForms : form.line = line

\* the files of the project that have the name, or the file at the path
FilesAt(path) ==
    IF is_filename(path)
    THEN {project_files[k] : k \in {h \in 1..Len(project_files) : basename(project_files[h]) = path}}
    ELSE {path} \cap DOMAIN ProjectDisk

\* the numbers of the lines that are the anchor and the end of the anchor
AnchorAt(lines, anchor) == {k \in 1..Len(lines) : lines[k] = <<"#", " ", "A", "N", "C", "H", "O", "R", ":", " ">> \o anchor}

EndAt(lines, anchor) ==
    {k \in 1..Len(lines) : lines[k] = <<"#", " ", "E", "N", "D", ":", " ">> \o anchor /\ \E b \in AnchorAt(lines, anchor) : b < k}

\* the lines between the anchor and its end
AnchoredLines(lines, anchor) ==
    JoinWith(SubSeq(lines, Min(AnchorAt(lines, anchor)) + 1, Min(EndAt(lines, anchor)) - 1), <<"\n">>)

\* the template names one file, and an anchor of that file when it names one
IsValidInclude(form) ==
    /\ Cardinality(FilesAt(form.path)) = 1
    /\ form.anchor # <<>> =>
            \A file \in FilesAt(form.path) : EndAt(SplitOn(ProjectDisk[file], "\n"), form.anchor) # {}

\* what the documentation says of the template: the file, or the lines of
\* its anchor
Included(form, file) ==
    IF form.anchor = <<>> THEN ProjectDisk[file]
    ELSE AnchoredLines(SplitOn(ProjectDisk[file], "\n"), form.anchor)

ExpectedLine(line) ==
    IF \E form \in IncludeForms : form.line = line
    THEN Included(FormOf(line), CHOOSE file \in FilesAt(FormOf(line).path) : TRUE)
    ELSE line

ExpectedLines(lines) == [k \in 1..Len(lines) |-> ExpectedLine(lines[k])]

ValidLines(lines) ==
    \A k \in 1..Len(lines) :
        (\E form \in IncludeForms : form.line = lines[k]) => IsValidInclude(FormOf(lines[k]))

\* C17: replace_includes replaces each template of the three forms of the
\* documentation by the content it names and does not raise: the whole file
\* found by its name, the lines between the anchor and its end in that
\* file, and the same lines of the file at a path that exists.
C17_IncludeForms ==
    (include_pc # "sub" /\ ValidLines(SplitOn(include_content, "\n")))
        => /\ include_pc = "returned"
           /\ include_output = JoinWith(ExpectedLines(SplitOn(include_content, "\n")), <<"\n">>)

(***************************************************************************)
(* C18: the messages that commit-message.py accepts.                       *)
(***************************************************************************)
\* the twelve types of the conventional commit style
CommitTypes ==
    { <<"b", "u", "i", "l", "d">>,
      <<"c", "h", "o", "r", "e">>,
      <<"c", "i">>,
      <<"d", "o", "c", "s">>,
      <<"f", "e", "a", "t">>,
      <<"f", "i", "x">>,
      <<"i", "m", "p", "r", "o", "v", "e", "m", "e", "n", "t">>,
      <<"p", "e", "r", "f">>,
      <<"r", "e", "f", "a", "c", "t", "o", "r">>,
      <<"r", "e", "v", "e", "r", "t">>,
      <<"s", "t", "y", "l", "e">>,
      <<"t", "e", "s", "t">> }

\* the message is t, then s, then ": " and a description
HasForm(message, t, s) ==
    /\ StartsWith(message, t \o s \o <<":", " ">>)
    /\ Len(message) > Len(t) + Len(s) + 2

\* "(<scope>)" with a scope of letters, digits, "_" and "-"
IsScope(s) ==
    /\ Len(s) >= 3
    /\ s[1] = "(" /\ s[Len(s)] = ")"
    /\ \A k \in 2..(Len(s) - 1) : s[k] \in Word \cup {"-"}

\* '<type>: <description>' or '<type>(<scope>): <description>'
IsConventional(message) ==
    \E t \in CommitTypes :
        \/ HasForm(message, t, <<>>)
        \/ \E n \in 3..(Len(message) - Len(t)) :
              /\ StartsWith(message, t)
              /\ IsScope(SubSeq(message, Len(t) + 1, Len(t) + n))
              /\ HasForm(message, t, SubSeq(message, Len(t) + 1, Len(t) + n))

StartsWithType(message) == \E t \in CommitTypes : StartsWith(message, t)

\* C18: once main has ended, a message of the form '<type>: <description>' or
\* '<type>(<scope>): <description>' with one of the twelve types, each of the four
\* COMMIT_EXAMPLES among them, was accepted (main returned without exit), and a
\* message that does not start with one of the types made main exit with code 1.
C18_TypesAccepted ==
    commit_pc \in {"returned", "exited"} =>
        /\ IsConventional(commit_message) => commit_pc = "returned"
        /\ commit_message \in COMMIT_EXAMPLES => commit_pc = "returned"
        /\ ~StartsWithType(commit_message) =>
              commit_pc = "exited" /\ commit_exit_code = 1

(***************************************************************************)
(* C19: the question asked before an output file is overwritten.           *)
(***************************************************************************)
\* the iterations after the i-th one that found their output file on the disk
LaterExisting(i) == {j \in (i + 1)..Len(maven_log) : maven_log[j].existed}

Answered(i, answers) == maven_log[i].prompted /\ maven_log[i].answer \in answers

\* C19: in every iteration of the loop of main that ended: after the answer "A"
\* the output file is written, and so is every later output file that exists,
\* with no further question; after the answer "y" the file is written and the
\* next output file that exists brings the question again; after any other
\* answer the file is not written; and with --overwrite no question is asked
\* and every output file is written.
C19_OverwritePrompt ==
    \A i \in 1..Len(maven_log) :
        /\ Answered(i, {"A"}) =>
              /\ maven_log[i].wrote
              /\ \A j \in LaterExisting(i) : ~maven_log[j].prompted /\ maven_log[j].wrote
        /\ Answered(i, {"y"}) =>
              /\ maven_log[i].wrote
              /\ LaterExisting(i) # {} => maven_log[Min(LaterExisting(i))].prompted
        /\ Answered(i, Answers \ {"A", "y", "Y"}) => ~maven_log[i].wrote
        /\ maven_args.overwrite => ~maven_log[i].prompted /\ maven_log[i].wrote

(***************************************************************************)
(* C20: to_snake_case.                                                     *)
(***************************************************************************)
\* the names with two underscores in a row
HasDoubleUnderscore(name) == \E k \in 1..(Len(name) - 1) : name[k] = "_" /\ name[k + 1] = "_"

\* what run_tests expects for the names it tests
ExpectedName(name) ==
    IF name = <<"H", "e", "l", "l", "o", "_", "W", "o", "r", "l", "d">> THEN <<"h", "e", "l", "l", "o", "_", "w", "o", "r", "l", "d">>
    ELSE IF name = <<"H", "e", "l", "l", "o", "W", "o", "r", "l", "d">> THEN <<"h", "e", "l", "l", "o", "_", "w", "o", "r", "l", "d">>
    ELSE <<"l", "o", "o", "p", "i", "n", "g", "_", "a", "u", "d", "i", "o", "_", "s", "t", "r", "e", "a", "m", "_", "p", "l", "a", "y", "e", "r", "_", "2", "d", ".", "g", "d">>

\* C20: to_snake_case returns a name in lower case, returns for each name of
\* run_tests the name that run_tests expects, puts no underscore next to an
\* underscore (a name without two underscores in a row gets none), and returns
\* its own result unchanged: to_snake_case(to_snake_case(n)) = to_snake_case(n).
C20_SnakeCase ==
    /\ rename_pc # "name" =>
          /\ new_name = StrLower(new_name)
          /\ old_name \in TestedNames => new_name = ExpectedName(old_name)
          /\ ~HasDoubleUnderscore(old_name) => ~HasDoubleUnderscore(new_name)
    /\ rename_pc = "renamed again" => newer_name = new_name

(***************************************************************************)
(* C21: every rule reaches every unmarked span of a line.                  *)
(***************************************************************************)
\* a span in inline-code or italics marks, or an element in keyboard tags
RE_MARKED ==
    Grp(1, Alt(<<Cat(<<In({BackTick, "*"}), PlusLazy(Dot), In({BackTick, "*"})>>),
                 Cat(<<Lit(KbdOpen), PlusLazy(Dot), Lit(KbdClose)>>)>>))

OddParts(parts) == {parts[k] : k \in {j \in 1..Len(parts) : j % 2 = 1}}

\* the spans of text outside the marks
UnmarkedSpans(text) == OddParts(Split(RE_MARKED, 1, text))

RuleLeaves(formatter, spans) == \A span \in spans : Apply(formatter, span) = span

\* C21: the line that the rules return is a fixpoint of every rule: each
\* function of FORMATTERS leaves every unmarked span of it unchanged, so a rule
\* that fired has kept no later rule from the rest of the line.
C21_EveryRuleEverySpan ==
    (stage = "processed" /\ ~processed.raised) =>
        \A k \in 1..Len(FORMATTERS) : RuleLeaves(FORMATTERS[k], UnmarkedSpans(processed.out))

(***************************************************************************)
(* C22: the order of the rules.                                            *)
(***************************************************************************)
\* the order in which the rules are listed in the description of the prose
\* rewriter: keyboard shortcuts after the numeric literals
StatedOrder == FORMATTERS_as_stated

\* the order with the keyboard shortcuts after the sequences of capitalized
\* words and before the built-in class names
KeyboardFourth ==
    << inline_code_paths,
       inline_code_variables_and_functions,
       italicize_word_sequences,
       add_keyboard_tags,
       inline_code_built_in_classes,
       inline_code_hex_values,
       italicize_other_words,
       inline_code_numeric_values >>

Changing(order, line) == {k \in 1..Len(order) : Apply(order[k], line) # line}

\* the line after the first rule of the order that changes it, its parts around
\* the marks that the rule made being formatted in turn
FirstInOrder(order, line) ==
    IF Changing(order, line) = {} THEN line
    ELSE format_formatted(line, Apply(order[Min(Changing(order, line))], line))

IsUnmarkedLine(line) ==
    /\ Len(split_formatted_words(line)) <= 1
    /\ ~MatchAt(In({BackTick, "*"}), line, 1).ok
    /\ \A k \in 1..Len(line) : line[k] # "\n"

IsSegment(text) ==
    \/ FullMatch(RE_SPLIT_CODE_BLOCK, text)
    \/ FullMatch(RE_SPLIT_FRONT_MATTER, text)
    \/ FullMatch(RE_SPLIT_HTML, text)
    \/ FullMatch(RE_SPLIT_TEMPLATE, text)
    \/ FullMatch(Cat(<<Ch("\""), Star(NotIn({"\""})), Ch("\"")>>), text)
    \/ FullMatch(Cat(<<Ch("'"), Star(NotIn({"'"})), Ch("'")>>), text)

AsProse(text) == prose_block(prose_chunks(text)).out

\* C23: a section of process_content that is not a full match of one of the
\* segment patterns (and is no code block) is given to the prose rules: what is
\* emitted for it is what format_content makes of it.
C23_RemainderIsProse ==
    (stage = "processed" /\ ~processed.raised) =>
        \A j \in 1..Len(processed.sections) :
            (~is_code_block(processed.sections[j]) /\ ~IsSegment(processed.sections[j]))
                => processed.blocks[j].out = AsProse(processed.sections[j])

(***************************************************************************)
(* C24: the segments that are not prose are copied.                        *)
(***************************************************************************)
\* the sections that the split on RE_MARKDOWN_BLOCKQUOTE made of the text of
\* a blockquote line: they follow the section of the mark of the line
QuotedLines(sections) == {j \in 2..Len(sections) : sections[j - 1] = <<">", " ">>}

\* the sections that are one HTML block, one front matter or one quoted string
CopiedSegments(sections) ==
    {j \in 1..Len(sections) :
        \/ FullMatch(RE_SPLIT_FRONT_MATTER, sections[j])
        \/ FullMatch(RE_SPLIT_HTML, sections[j])
        \/ FullMatch(Cat(<<Ch("\""), Star(NotIn({"\""})), Ch("\"")>>), sections[j])}

\* C24: every section of process_content that is an HTML block, a front
\* matter, a quoted string or the text of a blockquote line is emitted as it is.
C24_Passthrough ==
    (stage = "processed" /\ ~processed.raised) =>
        \A j \in CopiedSegments(processed.sections) \cup QuotedLines(processed.sections) :
            processed.blocks[j].out = processed.sections[j]

(***************************************************************************)
(* C25: front matter is at the start of the document.                      *)
(***************************************************************************)
\* the sections that are a block between two marker lines
FrontMatters(sections) ==
    {j \in 1..Len(sections) : FullMatch(RE_SPLIT_FRONT_MATTER, sections[j])}

\* C25: a block between two lines of three dashes is copied as front matter
\* when it is the first section of the document, and any other such block goes
\* through the prose rules.
C25_FrontMatterAtStart ==
    (stage = "processed" /\ ~processed.raised) =>
        \A j \in FrontMatters(processed.sections) :
            processed.blocks[j].out =
                IF j = 1 THEN processed.sections[j] ELSE AsProse(processed.sections[j])

(***************************************************************************)
(* Properties of the comments of a code block (specification SpecComment)  *)
(***************************************************************************)
\* the comment line as it was written, between the first line of the block
\* and the end of line before the closing fence
OriginalComment ==
    SubSeq(content, Len(BlockStart) + 1, Len(content) - Len(Fence) - 1)

\* the lines that stand for the comment in the processed block
EmittedLines ==
    SplitOn(SubSeq(CodeOf(processed.out), 1, Len(CodeOf(processed.out)) - 1), "\n")

\* the number of comment markers that follow the leading tabs of the line
MarkerRun(line) == Len(LStrip(line, {"\t"})) - Len(LStrip(LStrip(line, {"\t"}), {"#"}))

\* the letters of the line after its tabs, its markers and its spaces
LettersOf(line) == SelectSeq(LStrip(line, {"\t", "#", " "}), LAMBDA c : c # " ")

RECURSIVE LettersOfLines(_)
LettersOfLines(lines) ==
    IF Len(lines) = 0 THEN <<>> ELSE LettersOf(Head(lines)) \o LettersOfLines(Tail(lines))

\* C26: every line emitted for a comment on a line of its own starts with as
\* many tabs and as many comment markers as the comment line had, for one, two
\* and three markers, and the lines carry the text of the comment.
C26_PrefixPreserved ==
    (stage = "processed" /\ ~processed.raised) =>
        /\ \A k \in 1..Len(EmittedLines) :
                /\ count_indents(EmittedLines[k]) = count_indents(OriginalComment)
                /\ MarkerRun(EmittedLines[k]) = MarkerRun(OriginalComment)
        /\ LettersOfLines(EmittedLines) = LettersOf(OriginalComment)

(***************************************************************************)
(* C27: the width of the lines of a comment.                               *)
(***************************************************************************)
\* the number of columns of a line whose tabs are its leading ones
Columns(line) == TAB_WIDTH * count_indents(line) + (Len(line) - count_indents(line))

\* the prefix of the comment leaves room for text: TAB_WIDTH * k + d + 1 < 80
HasRoom(line) == TAB_WIDTH * count_indents(line) + MarkerRun(line) + 1 < 80

\* one space stands between the markers of the line and its first word
SpaceAfterMarkers(line) ==
    /\ typed > 0
    /\ line[count_indents(line) + MarkerRun(line) + 1] = " "

EveryLineFits ==
    \A k \in 1..Len(EmittedLines) : Columns(EmittedLines[k]) <= 80

C27_FitsButSplit ==
    /\ stage = "processed"
    /\ ~processed.raised
    /\ Columns(OriginalComment) = 80
    /\ Len(EmittedLines) = 2

(***************************************************************************)
(* C28: headings, links and images (specification SpecHeadings)            *)
(***************************************************************************)
\* the heading lines, the links and the images of a text without code block,
\* from first to last: what RE_TO_IGNORE matches in it
texts_of(ms, text) == [k \in 1..Len(ms) |-> Group0(text, ms[k])]

HeadingsAndLinks(text) == texts_of(FindAll(RE_TO_IGNORE, text, 1), text)

\* C28: the heading lines, the links and the images of the document are
\* emitted as they are: those of the output of process_content are those of
\* its input, character for character and in the same order.
C28_HeadingsAndLinksKept ==
    (stage = "processed" /\ ~processed.raised) =>
        HeadingsAndLinks(processed.out) = HeadingsAndLinks(content)

(***************************************************************************)
(* C29: a failure of chroma (specification SpecHighlight)                  *)
(***************************************************************************)
\* the code blocks of the markdown document
HighlightBlocks == FindAll(RE_HIGHLIGHT, md_file, 1)

\* what stands for the block k in the result when its failure is local: the
\* output of chroma when it succeeded, the text of the block when it failed
LocalReplacement(k) ==
    IF returncodes[k] = 0
    THEN highlight_with_chroma(md_file, HighlightBlocks[k], 0)
    ELSE Group0(md_file, HighlightBlocks[k])

\* C29: when chroma returns a non-zero code for a code block, the block is left
\* as it was in the document and the rest of the document is unaffected: the
\* result is the document with the blocks on which chroma succeeded replaced
\* by its output, every other block and the text around the blocks standing
\* where they stood.
C29_FailureIsLocal ==
    highlight_pc = "returned" =>
        highlighted =
            Sub(HighlightBlocks, [k \in 1..Len(HighlightBlocks) |-> LocalReplacement(k)], md_file)

(***************************************************************************)
(* C30: the output of table_of_contents.py (specification SpecToc)         *)
(***************************************************************************)
\* the lines of the file with the first line that is the template replaced by
\* the lines of the table of contents, and the lines of the file when no line
\* is the template
WithContents(lines) ==
    LET templates == {k \in 1..Len(lines) : lines[k] = TEMPLATE_CONTENTS \o <<"\n">>}
    IN  IF templates = {} THEN lines
        ELSE SubSeq(lines, 1, Min(templates) - 1)
             \o generate_table_of_contents(find_headings(lines))
             \o SubSeq(lines, Min(templates) + 1, Len(lines))

\* C30: main prints the lines of the document with the first line that is
\* exactly the template replaced by the table of contents, every other line
\* unchanged and in its place; a document without such a line is printed
\* unchanged.
C30_OnlyTemplateReplaced ==
    toc_pc = "returned" => toc_stdout = Join(WithContents(toc_content)) \o <<"\n">>

====
